---- MODULE Spec2Model ----
(***************************************************************************)
(* kplex: the sentence queue (init_q, push_senblk, next_senblk,            *)
(* senblk_free), the multiplexing engine, the interface lifecycle          *)
(* (start_interface, unlink_interface), the supervisor's reaper loop and   *)
(* the signal handlers (terminate, killemall), modelled from src/kplex.c   *)
(* and src/serial.c.                                                       *)
(*                                                                         *)
(* A queue is modelled with its intrusive links: slots are 1..size, NULL   *)
(* is 0, "next" is the per-slot link, "blk" the per-slot contents.         *)
(* Every critical section under q_mutex is one atomic step.                *)
(***************************************************************************)
EXTENDS Integers, Sequences, FiniteSets, TLC

NULL == 0
\* no call has returned yet
NoRet == -1

\* smallest queue size the command line accepts
MinQSize == 2
\* largest queue size explored
MaxQSize == 3
\* number of non-NULL pushes explored on the stand-alone queue
MaxPush == 5

\* a zeroed senblk (calloc)
Blank == [src |-> NULL, data |-> 0]
\* the NULL senblk pointer, the "off" switch of a queue
NullBlk == [src |-> NULL, data |-> -1]

(***************************************************************************)
(* Queue operations (pure functions on a queue record)                     *)
(***************************************************************************)

\* ioqueue_t as init_q leaves it: every slot on the free list, in array order
init_q(size) ==
    [ size   |-> size,
      free   |-> 1,
      qhead  |-> NULL,
      qtail  |-> NULL,
      active |-> TRUE,
      next   |-> [s \in 1..size |-> IF s < size THEN s + 1 ELSE NULL],
      blk    |-> [s \in 1..size |-> Blank] ]

\* senblk_copy: len/src/data copied, the destination's link cleared
senblk_copy(q, dptr, sptr) ==
    [q EXCEPT !.blk[dptr] = sptr, !.next[dptr] = NULL]

\* push_senblk dereferences q->qhead when the free list is empty: with an
\* empty FIFO too that is a NULL dereference
PushFaults(sptr, q) ==
    sptr # NullBlk /\ q.free = NULL /\ q.qhead = NULL

\* mutant: on overrun the newest enqueued unit is overwritten in place
push_senblk_dropnewest(sptr, q) ==
    IF sptr = NullBlk THEN [q EXCEPT !.active = FALSE]
    ELSE IF q.free # NULL
         THEN LET tptr == q.free
                  q1 == [q EXCEPT !.free = q.next[q.free]]
                  q2 == senblk_copy(q1, tptr, sptr)
                  q3 == IF q2.qtail # NULL
                        THEN [q2 EXCEPT !.next[q2.qtail] = tptr] ELSE q2
                  q4 == [q3 EXCEPT !.qtail = tptr]
              IN IF q4.qhead = NULL THEN [q4 EXCEPT !.qhead = tptr] ELSE q4
         ELSE [q EXCEPT !.blk[q.qtail] = sptr]

\* mutant: the closing push also enqueues a closure unit, as a data push
\* would (when a slot can be had)
push_senblk_sentinel(sptr, q) ==
    LET q0 == IF sptr = NullBlk THEN [q EXCEPT !.active = FALSE] ELSE q
        tptr == IF q0.free # NULL THEN q0.free ELSE q0.qhead
    IN IF tptr = NULL THEN q0
       ELSE LET q1 == IF q0.free # NULL
                      THEN [q0 EXCEPT !.free = q0.next[q0.free]]
                      ELSE [q0 EXCEPT !.qhead = q0.next[q0.qhead]]
                q2 == senblk_copy(q1, tptr, sptr)
                q3 == IF q2.qtail # NULL
                      THEN [q2 EXCEPT !.next[q2.qtail] = tptr] ELSE q2
                q4 == [q3 EXCEPT !.qtail = tptr]
            IN IF q4.qhead = NULL THEN [q4 EXCEPT !.qhead = tptr] ELSE q4

\* push_senblk, for a push that does not fault
push_senblk(sptr, q) ==
    IF sptr = NullBlk
    THEN [q EXCEPT !.active = FALSE]
    ELSE LET tptr == IF q.free # NULL THEN q.free ELSE q.qhead
             q1 == IF q.free # NULL
                   THEN [q EXCEPT !.free = q.next[q.free]]
                   ELSE [q EXCEPT !.qhead = q.next[q.qhead]]
             q2 == senblk_copy(q1, tptr, sptr)
             q3 == IF q2.qtail # NULL
                   THEN [q2 EXCEPT !.next[q2.qtail] = tptr] ELSE q2
             q4 == [q3 EXCEPT !.qtail = tptr]
         IN IF q4.qhead = NULL THEN [q4 EXCEPT !.qhead = tptr] ELSE q4

\* mutant: an inactive queue reports end-of-stream even when units remain
next_result_eager(q) ==
    IF ~q.active THEN "eos"
    ELSE IF q.qhead # NULL THEN "unit" ELSE "wait"

\* next_senblk's decision under the mutex: a unit, end-of-stream, or wait
next_result(q) ==
    IF q.qhead # NULL THEN "unit"
    ELSE IF ~q.active THEN "eos" ELSE "wait"

\* next_senblk detaching the head (q.qhead # NULL)
next_detach(q) ==
    LET tptr == q.qhead
    IN [q EXCEPT !.qhead = q.next[tptr],
                 !.qtail = IF q.next[tptr] = NULL THEN NULL ELSE @]

\* mutant: the slot is dropped instead of being put back on the free list
senblk_free_lost(sptr, q) ==
    [q EXCEPT !.next[sptr] = NULL]

\* senblk_free: the slot is prepended to the free list
senblk_free(sptr, q) ==
    [q EXCEPT !.next[sptr] = q.free, !.free = sptr]

(***************************************************************************)
(* Reading a queue's lists.  A walk follows at most size+1 links, so that  *)
(* a cyclic chain shows as a walk longer than the queue.                   *)
(***************************************************************************)
RECURSIVE Walk(_, _, _)
Walk(q, s, fuel) ==
    IF s = NULL \/ fuel = 0 THEN <<>>
    ELSE <<s>> \o Walk(q, q.next[s], fuel - 1)

Chain(q) == Walk(q, q.qhead, q.size + 1)
FreeList(q) == Walk(q, q.free, q.size + 1)
SeqSet(s) == {s[i] : i \in 1..Len(s)}
ChainData(q) == [i \in 1..Len(Chain(q)) |-> q.blk[Chain(q)[i]].data]

(***************************************************************************)
(* State                                                                   *)
(***************************************************************************)
VARIABLES
    hq,        \* stand-alone queue under test
    hheld,     \* slots returned by next_senblk and not yet given back
    hmaxheld,  \* how many slots the consumer keeps at most at a time
    hpushed,   \* number of non-NULL pushes so far (the n-th push carries data n)
    hnexts,    \* some next_senblk call has returned
    hret,      \* what the last next_senblk returned: NoRet, NULL or a slot
    hretdata,  \* the contents of the unit the last next_senblk returned
    heos,      \* next_senblk has returned end-of-stream at least once
    hwait,     \* the consumer is blocked in pthread_cond_wait
    hfault     \* a push has dereferenced NULL

hvars == <<hq, hheld, hmaxheld, hpushed, hnexts, hret, hretdata, heos, hwait, hfault>>

VARIABLES
    dirn,      \* iface_t.direction of every interface
    pair,      \* iface_t.pair (NULL when unpaired)
    ifnext,    \* iface_t.next, the one link shared by the four lists
    lists,     \* struct iolists: heads of initialized, inputs, outputs, dead
    eq,        \* the engine's (central) queue
    oq,        \* the private queue of every output interface
    qfreed,    \* the private queue has been freed by unlink_interface
    tpc,       \* where every interface thread is
    wslot,     \* the slot an output thread holds between next_senblk and senblk_free
    nsent,     \* sentences an input's device still has to deliver before EOF
    npushed,   \* sentences an input has pushed so far
    usr1,      \* SIGUSR1 pending for the interface thread
    epc,       \* where the engine thread is
    esptr,     \* the engine's sptr: a slot of the central queue, or NULL
    mpc,       \* where main() is
    pstate,    \* the process: "run", "exit0", "exit1", "segv", "hang"
    timetodie, \* the global set by killemall
    pair0,     \* history: the pairing as the initialisers made it
    edeq,      \* history: the units next_senblk returned to the engine
    opushed,   \* history: the units the engine pushed onto every output queue
    recv,      \* history: the units next_senblk returned to every output thread
    eosseen    \* history: the output thread got NULL from next_senblk

svars == <<dirn, pair, ifnext, lists, eq, oq, qfreed, tpc, wslot, nsent, npushed,
           usr1, epc, esptr, mpc, pstate, timetodie, pair0, edeq, opushed, recv,
           eosseen>>

VARIABLES
    sigterm,   \* history: SIGTERM or SIGINT has been delivered
    eqlock,    \* the thread that exited holding the central queue's q_mutex, or NULL
    nunlink,   \* history: how often unlink_interface was entered for every interface
    ncleanup,  \* history: how often ifa->cleanup was invoked for every interface
    restored,  \* history: cleanup has restored the saved terminal attributes
    woken      \* killemall's pthread_cond_signal has reached main() waiting on dead_cond

xvars == <<sigterm, eqlock, nunlink, ncleanup, restored, woken>>

VARIABLES
    cpc,       \* where main() is before the interfaces are initialised
    argq,      \* the -q arguments getopt has still to deliver
    gopts,     \* the options of the [global] section main() has still to read
    qsize,     \* main()'s qsize
    err,       \* main()'s err
    cq         \* e_info->q: empty until init_q has built the central queue

qvars == <<cpc, argq, gopts, qsize, err, cq>>

VARIABLES
    ifptr,     \* main()'s ifptr in its loops over the interfaces
    ifptr2     \* main()'s ifptr2, the successor saved before a call

ivars == <<ifptr, ifptr2>>

VARIABLES
    cline,     \* the line fgets has put into configbuf
    atEof,     \* feof(fp) after that line
    nc,        \* what next_config returned for it: empty until it has returned
    cfile,     \* the configuration file, section by section
    fpos,      \* the sections of cfile parse_file has read
    list,      \* parse_file's list: the first descriptor, or NULL
    ifpp,      \* parse_file's ifpp: NULL for &list, else the descriptor whose next it is
    desc,      \* the descriptors by section number: type, direction, next
    ppc        \* where parse_file is

pvars == <<cline, atEof, nc, cfile, fpos, list, ifpp, desc, ppc>>

VARIABLES
    stream,    \* history: the bytes read() has returned to read_serial so far
    rd,        \* read_serial's locals and sblk, and the units it has pushed
    ovf        \* what the build makes of a signed int that overflows

rvars == <<stream, rd, ovf>>

cvars == <<qvars, ivars, pvars, rvars>>

vars == <<hvars, svars, xvars, cvars>>

\* the interfaces main() initialises (besides the engine's own iface_t)
Ifaces == {1, 2, 3}
\* size of an output's private queue (DEFSERIALQSIZE, scaled down)
OutQSize == 3
\* sentences an input delivers before its read() returns 0
MaxSent == 3

(***************************************************************************)
(* Stand-alone queue: producers push, one consumer takes and gives back    *)
(***************************************************************************)
\* push_senblk(&sblk, q) by a producer; q_mutex serialises the producers, so
\* which of them pushes does not show in the queue: src is fixed
QPush ==
    /\ ~hfault
    /\ hpushed < MaxPush
    /\ LET sptr == [src |-> 1, data |-> hpushed + 1]
       IN IF PushFaults(sptr, hq)
          THEN /\ hfault' = TRUE
               /\ UNCHANGED <<hq, hwait>>
          ELSE /\ hq' = push_senblk(sptr, hq)
               /\ hwait' = FALSE          \* pthread_cond_broadcast
               /\ UNCHANGED hfault
    /\ hpushed' = hpushed + 1
    /\ UNCHANGED <<hheld, hmaxheld, hnexts, hret, hretdata, heos>>
    /\ UNCHANGED svars
    /\ UNCHANGED xvars
    /\ UNCHANGED cvars

\* push_senblk(NULL, q)
QClose ==
    /\ ~hfault
    /\ hq' = push_senblk(NullBlk, hq)
    /\ hwait' = FALSE
    /\ UNCHANGED <<hheld, hmaxheld, hpushed, hnexts, hret, hretdata, heos, hfault>>
    /\ UNCHANGED svars
    /\ UNCHANGED xvars
    /\ UNCHANGED cvars

\* next_senblk(q) by the consumer, from the call or from a wake-up
QNext ==
    /\ ~hfault
    /\ ~hwait
    /\ Cardinality(hheld) < hmaxheld
    /\ LET r == next_result(hq)
       IN CASE r = "unit" ->
                 /\ hq' = next_detach(hq)
                 /\ hheld' = hheld \cup {hq.qhead}
                 /\ hret' = hq.qhead
                 /\ hretdata' = hq.blk[hq.qhead].data
                 /\ hnexts' = TRUE
                 /\ UNCHANGED <<heos, hwait>>
            [] r = "eos" ->
                 /\ hret' = NULL
                 /\ hretdata' = 0
                 /\ heos' = TRUE
                 /\ hnexts' = TRUE
                 /\ UNCHANGED <<hq, hheld, hwait>>
            [] OTHER ->
                 /\ hwait' = TRUE
                 /\ UNCHANGED <<hq, hheld, hret, hretdata, heos, hnexts>>
    /\ UNCHANGED <<hmaxheld, hpushed, hfault>>
    /\ UNCHANGED svars
    /\ UNCHANGED xvars
    /\ UNCHANGED cvars

\* senblk_free(sptr, q) by the consumer, in any order
QFree(s) ==
    /\ ~hfault
    /\ ~hwait
    /\ s \in hheld
    /\ hq' = senblk_free(s, hq)
    /\ hheld' = hheld \ {s}
    /\ UNCHANGED <<hmaxheld, hpushed, hnexts, hret, hretdata, heos, hwait, hfault>>
    /\ UNCHANGED svars
    /\ UNCHANGED xvars
    /\ UNCHANGED cvars

QNextStep ==
    \/ QPush
    \/ QClose
    \/ QNext
    \/ \E s \in 1..MaxQSize : QFree(s)


(***************************************************************************)
(* The interface lists: four heads and the one intrusive link iface_t.next *)
(***************************************************************************)
RECURSIVE IfWalk(_, _, _)
IfWalk(nx, s, fuel) ==
    IF s = NULL \/ fuel = 0 THEN <<>>
    ELSE <<s>> \o IfWalk(nx, nx[s], fuel - 1)

\* the interfaces reached from a list head, following at most |Ifaces|+1 links
ListOf(head) == IfWalk(ifnext, head, Cardinality(Ifaces) + 1)

\* for (tptr=*lptr; tptr->next != ifa; tptr=tptr->next);
\* "segv" when the walk runs off the end of the list, "hang" when it cycles
RECURSIVE Pred(_, _, _, _)
Pred(nx, tptr, ifa, fuel) ==
    IF tptr = NULL THEN [st |-> "segv", at |-> NULL]
    ELSE IF nx[tptr] = ifa THEN [st |-> "ok", at |-> tptr]
    ELSE IF fuel = 0 THEN [st |-> "hang", at |-> NULL]
    ELSE Pred(nx, nx[tptr], ifa, fuel - 1)

\* mutant: removing the head empties the list instead of moving the head on
Remove_drophead(head, nx, ifa) ==
    IF head = ifa
    THEN [st |-> "ok", head |-> NULL, nx |-> nx]
    ELSE LET pr == Pred(nx, head, ifa, Cardinality(Ifaces))
         IN IF pr.st = "ok"
            THEN [st |-> "ok", head |-> head, nx |-> [nx EXCEPT ![pr.at] = nx[ifa]]]
            ELSE [st |-> pr.st, head |-> head, nx |-> nx]

\* taking ifa off the list that starts at head: the head moves on when ifa is
\* the head, otherwise ifa's predecessor is made to skip it
Remove(head, nx, ifa) ==
    IF head = ifa
    THEN [st |-> "ok", head |-> nx[ifa], nx |-> nx]
    ELSE LET pr == Pred(nx, head, ifa, Cardinality(Ifaces))
         IN IF pr.st = "ok"
            THEN [st |-> "ok", head |-> head, nx |-> [nx EXCEPT ![pr.at] = nx[ifa]]]
            ELSE [st |-> pr.st, head |-> head, nx |-> nx]

\* the last interface of a non-empty list: for(;tptr->next;tptr=tptr->next);
RECURSIVE Last(_, _, _)
Last(nx, tptr, fuel) ==
    IF nx[tptr] = NULL \/ fuel = 0 THEN tptr ELSE Last(nx, nx[tptr], fuel - 1)

\* a queue being switched off in place: active=0 under its mutex
CloseQ(q) == [q EXCEPT !.active = FALSE]

(***************************************************************************)
(* Start-up: the state main() has built when it waits on init_cond.  All   *)
(* interface threads are created with io_mutex held, so none has entered   *)
(* start_interface; the engine thread runs already.                        *)
(***************************************************************************)
\* the initialized list in the order main() linked it: 1, 2, 3
InitNext == [i \in Ifaces |-> IF i + 1 \in Ifaces THEN i + 1 ELSE NULL]

\* no serial reader is being looked at: read_serial has not been entered
RdNone ==
    [st |-> "none", count |-> 0, cr |-> 0, overrun |-> 0, senptr |-> 0,
     data |-> <<>>, pushes |-> <<>>, cut |-> 0]

RIdle ==
    /\ stream = <<>>
    /\ rd = RdNone
    /\ ovf = "wrap"

\* no configuration file is being read
PIdle ==
    /\ cline = <<>>
    /\ atEof = FALSE
    /\ nc = <<>>
    /\ cfile = <<>>
    /\ fpos = 0
    /\ list = NULL
    /\ ifpp = NULL
    /\ desc = <<>>
    /\ ppc = "done"

\* main() has read its arguments and the configuration file and has built
\* the central queue, which the multiplexer holds in eq
CIdle ==
    /\ cpc = "done"
    /\ argq = <<>>
    /\ gopts = <<>>
    /\ qsize = 0
    /\ err = 0
    /\ cq = <<>>
    /\ ifptr = NULL
    /\ ifptr2 = NULL
    /\ PIdle

SysInit(d, pr, ns, size) ==
    /\ CIdle
    /\ RIdle
    /\ dirn = d
    /\ pair = pr
    /\ pair0 = pr
    /\ ifnext = InitNext
    /\ lists = [initialized |-> 1, inputs |-> NULL, outputs |-> NULL, dead |-> NULL]
    /\ eq = init_q(size)
    /\ oq = [i \in Ifaces |-> init_q(OutQSize)]
    /\ qfreed = [i \in Ifaces |-> FALSE]
    /\ tpc = [i \in Ifaces |-> "start"]
    /\ wslot = [i \in Ifaces |-> NULL]
    /\ nsent = ns
    /\ npushed = [i \in Ifaces |-> 0]
    /\ usr1 = [i \in Ifaces |-> FALSE]
    /\ epc = "next"
    /\ esptr = NULL
    /\ mpc = "initwait"
    /\ pstate = "run"
    /\ timetodie = 0
    /\ edeq = <<>>
    /\ opushed = [i \in Ifaces |-> <<>>]
    /\ recv = [i \in Ifaces |-> <<>>]
    /\ eosseen = [i \in Ifaces |-> FALSE]
    /\ sigterm = FALSE
    /\ eqlock = NULL
    /\ nunlink = [i \in Ifaces |-> 0]
    /\ ncleanup = [i \in Ifaces |-> 0]
    /\ restored = [i \in Ifaces |-> FALSE]
    /\ woken = FALSE

\* the stand-alone queue, unused while the multiplexer runs
HIdle ==
    /\ hq = init_q(MinQSize)
    /\ hheld = {}
    /\ hmaxheld = 1
    /\ hpushed = 0
    /\ hnexts = FALSE
    /\ hret = NoRet
    /\ hretdata = 0
    /\ heos = FALSE
    /\ hwait = FALSE
    /\ hfault = FALSE

NoPair == [i \in Ifaces |-> NULL]

(***************************************************************************)
(* Interface threads                                                       *)
(***************************************************************************)
\* start_interface: the thread takes its interface off the initialized list
\* and puts it at the head of inputs or outputs; a NONE interface exits at
\* once, which runs the thread's destructor (unlink_interface)
\* mutant: the direction is not looked at, a NONE interface is linked and run
DirectionNone_ignored(i) == FALSE

\* the test start_interface makes once it holds io_mutex
DirectionNone(i) == dirn[i] = "NONE"

start_interface(i) ==
    /\ pstate = "run"
    /\ tpc[i] = "start"
    /\ IF DirectionNone(i)
       THEN /\ tpc' = [tpc EXCEPT ![i] = "unlink"]
            /\ UNCHANGED <<lists, ifnext, pstate>>
       ELSE LET r == Remove(lists.initialized, ifnext, i)
                lname == IF dirn[i] = "IN" THEN "inputs" ELSE "outputs"
                l1 == [lists EXCEPT !.initialized = r.head]
                nx1 == [r.nx EXCEPT ![i] = l1[lname]]
                l2 == [l1 EXCEPT ![lname] = i]
                nx2 == IF dirn[i] = "BOTH" THEN [nx1 EXCEPT ![i] = l2.inputs] ELSE nx1
                l3 == IF dirn[i] = "BOTH" THEN [l2 EXCEPT !.inputs = i] ELSE l2
            IN IF r.st # "ok"
               THEN /\ pstate' = "exit1"
                    /\ UNCHANGED <<lists, ifnext, tpc>>
               ELSE /\ lists' = l3
                    /\ ifnext' = nx2
                    /\ tpc' = [tpc EXCEPT ![i] = IF dirn[i] = "IN" THEN "read" ELSE "write"]
                    /\ UNCHANGED pstate
    /\ UNCHANGED <<dirn, pair, eq, oq, qfreed, wslot, nsent, npushed, usr1, epc, esptr,
                   mpc, timetodie, pair0, edeq, opushed, recv, eosseen>>
    /\ UNCHANGED hvars
    /\ UNCHANGED xvars
    /\ UNCHANGED cvars

\* main() gives every interface that is not OUT the central queue as its q;
\* an OUT interface keeps the private queue its initialiser made
OwnsQueue(i) == dirn[i] = "OUT"

\* ifa->q as the interface's write routine sees it
IfQ(i) == IF OwnsQueue(i) THEN oq[i] ELSE eq

\* pthread_cond_broadcast on the central queue: besides the engine, the
\* write routines waiting on it are woken
WakeCentral(t) ==
    [j \in Ifaces |-> IF ~OwnsQueue(j) /\ t[j] = "wwait" THEN "write" ELSE t[j]]

\* read_serial: one sentence framed and pushed onto the central queue
ReadPush(i) ==
    /\ pstate = "run"
    /\ tpc[i] = "read"
    /\ eqlock = NULL
    /\ dirn[i] # "NONE"
    /\ nsent[i] > 0
    /\ LET sblk == [src |-> i, data |-> npushed[i] + 1]
       IN IF PushFaults(sblk, eq)
          THEN /\ pstate' = "segv"
               /\ UNCHANGED <<eq, epc, tpc>>
          ELSE /\ eq' = push_senblk(sblk, eq)
               /\ epc' = IF epc = "wait" THEN "next" ELSE epc
               /\ tpc' = WakeCentral(tpc)
               /\ UNCHANGED pstate
    /\ nsent' = [nsent EXCEPT ![i] = @ - 1]
    /\ npushed' = [npushed EXCEPT ![i] = @ + 1]
    /\ UNCHANGED <<dirn, pair, ifnext, lists, oq, qfreed, wslot, usr1, esptr,
                   mpc, timetodie, pair0, edeq, opushed, recv, eosseen>>
    /\ UNCHANGED hvars
    /\ UNCHANGED xvars
    /\ UNCHANGED cvars

\* read_serial leaving its loop: read() returned 0 or direction became NONE
ReadEnd(i) ==
    /\ pstate = "run"
    /\ tpc[i] = "read"
    /\ dirn[i] = "NONE" \/ nsent[i] = 0
    /\ tpc' = [tpc EXCEPT ![i] = "unlink"]
    /\ UNCHANGED <<dirn, pair, ifnext, lists, eq, oq, qfreed, wslot, nsent, npushed, usr1,
                   epc, esptr, mpc, pstate, timetodie, pair0, edeq, opushed, recv, eosseen>>
    /\ UNCHANGED hvars
    /\ UNCHANGED xvars
    /\ UNCHANGED cvars

\* terminate(): SIGUSR1 taken by an input thread between two sentences
Terminate(i) ==
    /\ pstate = "run"
    /\ tpc[i] = "read"
    /\ usr1[i]
    /\ tpc' = [tpc EXCEPT ![i] = "unlink"]
    /\ usr1' = [usr1 EXCEPT ![i] = FALSE]
    /\ UNCHANGED <<dirn, pair, ifnext, lists, eq, oq, qfreed, wslot, nsent, npushed,
                   epc, esptr, mpc, pstate, timetodie, pair0, edeq, opushed, recv, eosseen>>
    /\ UNCHANGED hvars
    /\ UNCHANGED xvars
    /\ UNCHANGED cvars

\* write_serial calling next_senblk on the interface's own queue
WriteNext(i) ==
    /\ pstate = "run"
    /\ tpc[i] = "write"
    /\ OwnsQueue(i) \/ eqlock = NULL
    /\ LET q == IfQ(i)
           r == next_result(q)
       IN CASE r = "unit" ->
                 /\ IF OwnsQueue(i)
                    THEN oq' = [oq EXCEPT ![i] = next_detach(q)] /\ UNCHANGED eq
                    ELSE eq' = next_detach(q) /\ UNCHANGED oq
                 /\ wslot' = [wslot EXCEPT ![i] = q.qhead]
                 /\ recv' = [recv EXCEPT ![i] = Append(@, q.blk[q.qhead])]
                 /\ tpc' = [tpc EXCEPT ![i] = "wheld"]
                 /\ UNCHANGED eosseen
            [] r = "eos" ->
                 /\ eosseen' = [eosseen EXCEPT ![i] = TRUE]
                 /\ tpc' = [tpc EXCEPT ![i] = "unlink"]
                 /\ UNCHANGED <<eq, oq, wslot, recv>>
            [] OTHER ->
                 /\ tpc' = [tpc EXCEPT ![i] = "wwait"]
                 /\ UNCHANGED <<eq, oq, wslot, recv, eosseen>>
    /\ UNCHANGED <<dirn, pair, ifnext, lists, qfreed, nsent, npushed, usr1,
                   epc, esptr, mpc, pstate, timetodie, pair0, edeq, opushed>>
    /\ UNCHANGED hvars
    /\ UNCHANGED xvars
    /\ UNCHANGED cvars

\* write_serial: the sentence written, the slot given back
WriteFree(i) ==
    /\ pstate = "run"
    /\ tpc[i] = "wheld"
    /\ OwnsQueue(i) \/ eqlock = NULL
    /\ IF OwnsQueue(i)
       THEN oq' = [oq EXCEPT ![i] = senblk_free(wslot[i], oq[i])] /\ UNCHANGED eq
       ELSE eq' = senblk_free(wslot[i], eq) /\ UNCHANGED oq
    /\ wslot' = [wslot EXCEPT ![i] = NULL]
    /\ tpc' = [tpc EXCEPT ![i] = "write"]
    /\ UNCHANGED <<dirn, pair, ifnext, lists, qfreed, nsent, npushed, usr1,
                   epc, esptr, mpc, pstate, timetodie, pair0, edeq, opushed, recv, eosseen>>
    /\ UNCHANGED hvars
    /\ UNCHANGED xvars
    /\ UNCHANGED cvars

\* the list unlink_interface searches for ifa: inputs for IN, outputs for
\* every other direction
UnlinkList(i) == IF dirn[i] = "IN" THEN "inputs" ELSE "outputs"

\* mutant: the sibling is never taken for an output, its queue stays open
PairIsOutput_never(p) == FALSE

\* the sibling is an output: its queue is closed and its waiters are woken
PairIsOutput(p) == p # NULL /\ dirn[p] = "OUT"

\* what pthread_kill(ifa->pair->tid, SIGUSR1) can do: tid is set by
\* start_interface; before that the duplicate made by ifdup holds whatever
\* malloc left there, zero ("skip") or not ("garbage")
PairTid(p) == IF tpc[p] = "start" THEN {"skip", "garbage"} ELSE {"set"}

\* cleanup_serial: the saved terminal attributes are written back to the
\* device unless the interface has a pair; the descriptor is closed
cleanup_serial(i) == pair[i] = NULL

\* mutant: the survivor keeps its pointer to the endpoint being unlinked
ClearPair_kept(p) == pair

\* mutant: the endpoint being unlinked forgets its sibling p, not p it
ClearPair_own(p) == IF p # NULL THEN [pair EXCEPT ![pair[p]] = NULL] ELSE pair

\* ifa->pair->pair = NULL: the sibling p forgets the endpoint being unlinked
ClearPair(p) == IF p # NULL THEN [pair EXCEPT ![p] = NULL] ELSE pair

\* unlink_interface, run by the thread's destructor on every thread exit
unlink_interface(i) ==
    /\ pstate = "run"
    /\ tpc[i] = "unlink"
    /\ nunlink' = [nunlink EXCEPT ![i] = @ + 1]
    /\ LET lname == UnlinkList(i)
           r1 == Remove(lists[lname], ifnext, i)
           l1 == [lists EXCEPT ![lname] = r1.head]
           r2 == IF dirn[i] = "BOTH"
                 THEN Remove(l1.inputs, r1.nx, i)
                 ELSE [st |-> "ok", head |-> l1.inputs, nx |-> r1.nx]
           l2 == [l1 EXCEPT !.inputs = r2.head]
           freeq == dirn[i] = "OUT"
           closecentral == ~freeq /\ l2.inputs = NULL
           \* pthread_mutex_lock on a q_mutex whose owner has exited (or is
           \* this very thread) never returns, and io_mutex stays held
           st == IF r1.st # "ok" THEN r1.st
                 ELSE IF r2.st # "ok" THEN r2.st
                 ELSE IF closecentral /\ eqlock # NULL THEN "hang"
                 ELSE "ok"
           p == pair[i]
           closepair == PairIsOutput(p)
           killpair == p # NULL /\ dirn[p] # "OUT"
           nx3 == IF l2.dead = NULL THEN r2.nx
                  ELSE [r2.nx EXCEPT ![Last(r2.nx, l2.dead, Cardinality(Ifaces))] = i]
           l3 == IF l2.dead = NULL THEN [l2 EXCEPT !.dead = i] ELSE l2
       IN IF st # "ok"
          THEN /\ pstate' = st
               /\ UNCHANGED <<dirn, pair, ifnext, lists, eq, oq, qfreed, tpc, usr1, epc,
                              ncleanup, restored>>
          ELSE \E tid \in IF killpair THEN PairTid(p) ELSE {"none"} :
               /\ ncleanup' = [ncleanup EXCEPT ![i] = @ + 1]
               /\ restored' = [restored EXCEPT ![i] = @ \/ cleanup_serial(i)]
               /\ qfreed' = IF freeq THEN [qfreed EXCEPT ![i] = TRUE] ELSE qfreed
               /\ eq' = IF closecentral THEN CloseQ(eq) ELSE eq
               /\ epc' = IF closecentral /\ epc = "wait" THEN "next" ELSE epc
               /\ pair' = ClearPair(p)
               /\ oq' = IF closepair THEN [oq EXCEPT ![p] = CloseQ(oq[p])] ELSE oq
               /\ dirn' = IF killpair THEN [dirn EXCEPT ![p] = "NONE"] ELSE dirn
               /\ usr1' = IF tid = "set" THEN [usr1 EXCEPT ![p] = TRUE] ELSE usr1
               /\ IF tid = "garbage"
                  THEN \* pthread_kill on a thread id that is no thread
                       /\ pstate' = "segv"
                       /\ UNCHANGED <<tpc, ifnext, lists>>
                  ELSE /\ tpc' = [j \in Ifaces |->
                                   IF j = i THEN "done"
                                   ELSE IF closepair /\ j = p /\ tpc[j] = "wwait"
                                        THEN "write"
                                   ELSE IF closecentral THEN WakeCentral(tpc)[j]
                                   ELSE tpc[j]]
                       /\ ifnext' = [nx3 EXCEPT ![i] = NULL]
                       /\ lists' = l3
                       /\ UNCHANGED pstate
    /\ UNCHANGED <<wslot, nsent, npushed, esptr, mpc, timetodie, pair0, edeq, opushed,
                   recv, eosseen>>
    /\ UNCHANGED hvars
    /\ UNCHANGED <<sigterm, eqlock, woken>>
    /\ UNCHANGED cvars

(***************************************************************************)
(* The engine                                                              *)
(***************************************************************************)
\* the test of engine's inner loop: an OUT interface that is not the pair of
\* the sentence's source (every OUT interface for the NULL senblk)
Eligible(o, sptr) ==
    dirn[o] = "OUT" /\ (sptr = NullBlk \/ sptr.src # pair[o])

\* the inner loop: sptr pushed onto the queue of every eligible output, in
\* list order
RECURSIVE FanOut(_, _, _)
FanOut(qs, lst, sptr) ==
    IF lst = <<>> THEN qs
    ELSE LET o == Head(lst)
         IN FanOut(IF Eligible(o, sptr)
                   THEN [qs EXCEPT ![o] = push_senblk(sptr, qs[o])]
                   ELSE qs,
                   Tail(lst), sptr)

\* sptr = next_senblk(eptr->q)
EngineNext ==
    /\ pstate = "run"
    /\ epc = "next"
    /\ eqlock = NULL
    /\ LET r == next_result(eq)
       IN CASE r = "unit" ->
                 /\ eq' = next_detach(eq)
                 /\ esptr' = eq.qhead
                 /\ edeq' = Append(edeq, eq.blk[eq.qhead])
                 /\ epc' = "fan"
            [] r = "eos" ->
                 /\ esptr' = NULL
                 /\ epc' = "fan"
                 /\ UNCHANGED <<eq, edeq>>
            [] OTHER ->
                 /\ epc' = "wait"
                 /\ UNCHANGED <<eq, esptr, edeq>>
    /\ UNCHANGED <<dirn, pair, ifnext, lists, oq, qfreed, tpc, wslot, nsent, npushed, usr1,
                   mpc, pstate, timetodie, pair0, opushed, recv, eosseen>>
    /\ UNCHANGED hvars
    /\ UNCHANGED xvars
    /\ UNCHANGED cvars

\* the traversal of the outputs list under io_mutex
EngineFan ==
    /\ pstate = "run"
    /\ epc = "fan"
    /\ LET sptr == IF esptr = NULL THEN NullBlk ELSE eq.blk[esptr]
           outs == ListOf(lists.outputs)
           elig == {o \in SeqSet(outs) : Eligible(o, sptr)}
       IN IF \E o \in elig : PushFaults(sptr, oq[o])
          THEN /\ pstate' = "segv"
               /\ UNCHANGED <<oq, tpc, opushed, epc>>
          ELSE /\ oq' = FanOut(oq, outs, sptr)
               /\ tpc' = [j \in Ifaces |->
                            IF j \in elig /\ tpc[j] = "wwait" THEN "write" ELSE tpc[j]]
               /\ opushed' = [j \in Ifaces |->
                            IF j \in elig /\ sptr # NullBlk
                            THEN Append(opushed[j], sptr) ELSE opushed[j]]
               /\ epc' = IF esptr = NULL THEN "done" ELSE "free"
               /\ UNCHANGED pstate
    /\ UNCHANGED <<dirn, pair, ifnext, lists, eq, qfreed, wslot, nsent, npushed, usr1,
                   esptr, mpc, timetodie, pair0, edeq, recv, eosseen>>
    /\ UNCHANGED hvars
    /\ UNCHANGED xvars
    /\ UNCHANGED cvars

\* senblk_free(sptr, eptr->q)
EngineFree ==
    /\ pstate = "run"
    /\ epc = "free"
    /\ eqlock = NULL
    /\ eq' = senblk_free(esptr, eq)
    /\ esptr' = NULL
    /\ epc' = "next"
    /\ UNCHANGED <<dirn, pair, ifnext, lists, oq, qfreed, tpc, wslot, nsent, npushed, usr1,
                   mpc, pstate, timetodie, pair0, edeq, opushed, recv, eosseen>>
    /\ UNCHANGED hvars
    /\ UNCHANGED xvars
    /\ UNCHANGED cvars

(***************************************************************************)
(* main(): the wait for initialisation and the reaper loop                 *)
(***************************************************************************)
\* while (lists.initialized) pthread_cond_wait(&lists.init_cond, ...)
MainInitDone ==
    /\ pstate = "run"
    /\ mpc = "initwait"
    /\ lists.initialized = NULL
    /\ mpc' = "reap"
    /\ UNCHANGED <<dirn, pair, ifnext, lists, eq, oq, qfreed, tpc, wslot, nsent, npushed,
                   usr1, epc, esptr, pstate, timetodie, pair0, edeq, opushed, recv, eosseen>>
    /\ UNCHANGED hvars
    /\ UNCHANGED xvars
    /\ UNCHANGED cvars

\* one turn of the reaper loop once dead is non-empty or timetodie is set:
\* SIGUSR1 to every input when asked to die or when no output is left, then
\* every dead interface joined and freed
MainReap ==
    /\ pstate = "run"
    /\ mpc = "reap"
    /\ lists.outputs # NULL \/ lists.inputs # NULL \/ lists.dead # NULL
    /\ lists.dead # NULL \/ timetodie # 0
    /\ LET killall == timetodie # 0 \/ lists.outputs = NULL
           ins == SeqSet(ListOf(lists.inputs))
           deads == SeqSet(ListOf(lists.dead))
       IN /\ timetodie' = IF killall THEN 0 ELSE timetodie
          /\ usr1' = [j \in Ifaces |-> IF killall /\ j \in ins THEN TRUE ELSE usr1[j]]
          /\ tpc' = [j \in Ifaces |-> IF j \in deads THEN "reaped" ELSE tpc[j]]
          /\ lists' = [lists EXCEPT !.dead = NULL]
    /\ UNCHANGED <<dirn, pair, ifnext, eq, oq, qfreed, wslot, nsent, npushed,
                   epc, esptr, mpc, pstate, pair0, edeq, opushed, recv, eosseen>>
    /\ UNCHANGED hvars
    /\ UNCHANGED xvars
    /\ UNCHANGED cvars

\* the reaper loop's test failing: exit(0)
MainExit ==
    /\ pstate = "run"
    /\ mpc = "reap"
    /\ lists.outputs = NULL /\ lists.inputs = NULL /\ lists.dead = NULL
    /\ pstate' = "exit0"
    /\ UNCHANGED <<dirn, pair, ifnext, lists, eq, oq, qfreed, tpc, wslot, nsent, npushed,
                   usr1, epc, esptr, mpc, timetodie, pair0, edeq, opushed, recv, eosseen>>
    /\ UNCHANGED hvars
    /\ UNCHANGED xvars
    /\ UNCHANGED cvars

\* every step of the running multiplexer but the SIGUSR1 handler
Run ==
    \/ \E i \in Ifaces : start_interface(i)
    \/ \E i \in Ifaces : ReadPush(i)
    \/ \E i \in Ifaces : ReadEnd(i)
    \/ \E i \in Ifaces : WriteNext(i)
    \/ \E i \in Ifaces : WriteFree(i)
    \/ \E i \in Ifaces : unlink_interface(i)
    \/ EngineNext
    \/ EngineFan
    \/ EngineFree
    \/ MainInitDone
    \/ MainReap
    \/ MainExit

Next ==
    \/ Run
    \/ \E i \in Ifaces : Terminate(i)

(***************************************************************************)
(* Failures and signals from outside                                       *)
(***************************************************************************)
\* write_serial: write() returned -1; the slot is given back and the loop
\* test n >= 0 fails, so the thread exits
WriteErr(i) ==
    /\ pstate = "run"
    /\ tpc[i] = "wheld"
    /\ OwnsQueue(i) \/ eqlock = NULL
    /\ IF OwnsQueue(i)
       THEN oq' = [oq EXCEPT ![i] = senblk_free(wslot[i], oq[i])] /\ UNCHANGED eq
       ELSE eq' = senblk_free(wslot[i], eq) /\ UNCHANGED oq
    /\ wslot' = [wslot EXCEPT ![i] = NULL]
    /\ tpc' = [tpc EXCEPT ![i] = "unlink"]
    /\ UNCHANGED <<dirn, pair, ifnext, lists, qfreed, nsent, npushed, usr1,
                   epc, esptr, mpc, pstate, timetodie, pair0, edeq, opushed, recv, eosseen>>
    /\ UNCHANGED hvars
    /\ UNCHANGED xvars
    /\ UNCHANGED cvars

\* what pthread_cond_signal(&listp->dead_cond) does when called from the
\* handler: nothing when main() is not waiting on dead_cond; when main() is
\* inside pthread_cond_wait the call is made by the waiting thread itself
\* from a signal handler, for which POSIX promises nothing: the wait may
\* return or go on
SignalDead == IF mpc = "waiting" THEN BOOLEAN ELSE {FALSE}

\* killemall: SIGTERM or SIGINT, taken by main() (every other thread
\* inherits the mask that blocks them); delivered once
killemall ==
    /\ pstate = "run"
    /\ ~sigterm
    /\ sigterm' = TRUE
    /\ timetodie' = timetodie + 1
    /\ \E w \in SignalDead : woken' = (woken \/ w)
    /\ UNCHANGED <<dirn, pair, ifnext, lists, eq, oq, qfreed, tpc, wslot, nsent, npushed,
                   usr1, epc, esptr, mpc, pstate, pair0, edeq, opushed, recv, eosseen>>
    /\ UNCHANGED hvars
    /\ UNCHANGED <<eqlock, nunlink, ncleanup, restored>>
    /\ UNCHANGED cvars

\* terminate(): SIGUSR1 taken by an input thread inside push_senblk, between
\* pthread_mutex_lock and pthread_mutex_unlock: the thread exits with the
\* central queue's q_mutex locked, the push done or not
TerminateInPush(i) ==
    /\ pstate = "run"
    /\ tpc[i] = "read"
    /\ dirn[i] # "NONE"
    /\ nsent[i] > 0
    /\ usr1[i]
    /\ eqlock = NULL
    /\ LET sblk == [src |-> i, data |-> npushed[i] + 1]
       IN \/ UNCHANGED eq
          \/ ~PushFaults(sblk, eq) /\ eq' = push_senblk(sblk, eq)
    /\ eqlock' = i
    \* the broadcast wakes the waiters, which then block on the mutex
    /\ tpc' = [tpc EXCEPT ![i] = "unlink"]
    /\ usr1' = [usr1 EXCEPT ![i] = FALSE]
    /\ UNCHANGED <<dirn, pair, ifnext, lists, oq, qfreed, wslot, nsent, npushed,
                   epc, esptr, mpc, pstate, timetodie, pair0, edeq, opushed, recv, eosseen>>
    /\ UNCHANGED hvars
    /\ UNCHANGED <<sigterm, nunlink, ncleanup, restored, woken>>
    /\ UNCHANGED cvars

\* the multiplexer with devices that can fail on output
TearNext ==
    \/ Next
    \/ \E i \in Ifaces : WriteErr(i)

\* the multiplexer with failing devices and the signals from outside
TermNext ==
    \/ TearNext
    \/ killemall
    \/ \E i \in Ifaces : TerminateInPush(i)

\* What the scheduler guarantees: a thread that can run does run, and a
\* pending signal is taken.  Nothing is promised about the devices (a read
\* may block for ever, a write need not fail) nor about SIGTERM.
ThreadStep(i) ==
    \/ start_interface(i)
    \/ Terminate(i)
    \/ WriteNext(i)
    \/ WriteFree(i)
    \/ unlink_interface(i)

EngineStep == EngineNext \/ EngineFan \/ EngineFree

MainStep == MainInitDone \/ MainReap \/ MainExit

Fairness ==
    /\ \A i \in Ifaces : WF_vars(ThreadStep(i))
    /\ WF_vars(EngineStep)
    /\ WF_vars(MainStep)

(***************************************************************************)
(* Configurations                                                          *)
(***************************************************************************)
\* Fan-out: interface 1 an input delivering two sentences, 2 and 3 unpaired
\* outputs, every queue larger than the number of sentences.  No SIGUSR1 is
\* ever sent in this configuration.
FanInit ==
    /\ HIdle
    /\ SysInit([i \in Ifaces |-> IF i = 1 THEN "IN" ELSE "OUT"], NoPair,
               [i \in Ifaces |-> IF i = 1 THEN MaxSent - 1 ELSE 0], MaxSent)

FanSpec == FanInit /\ [][Run]_vars

\* Pair: a direction=both serial interface as init_serial splits it (1 the
\* OUT half, 2 its IN duplicate, each the other's pair) and an independent
\* output 3; the input half delivers two sentences.
PairInit ==
    /\ HIdle
    /\ SysInit([i \in Ifaces |-> IF i = 2 THEN "IN" ELSE "OUT"],
               [i \in Ifaces |-> IF i = 1 THEN 2 ELSE IF i = 2 THEN 1 ELSE NULL],
               [i \in Ifaces |-> IF i = 2 THEN MaxSent - 1 ELSE 0], MaxSent)

PairSpec == PairInit /\ [][Run]_vars

\* Ordering: input 1 delivering MaxSent sentences into a central queue of
\* any size from the minimum up, output 2, and a silent input 3.
OrdInit ==
    /\ HIdle
    /\ \E size \in MinQSize..MaxQSize :
         SysInit([i \in Ifaces |-> IF i = 2 THEN "OUT" ELSE "IN"], NoPair,
                 [i \in Ifaces |-> IF i = 1 THEN MaxSent ELSE 0], size)

OrdSpec == OrdInit /\ [][Run]_vars

\* Last-input closure: inputs 1 and 2 delivering one sentence each, output 3
TwoInInit ==
    /\ HIdle
    /\ SysInit([i \in Ifaces |-> IF i = 3 THEN "OUT" ELSE "IN"], NoPair,
               [i \in Ifaces |-> IF i = 3 THEN 0 ELSE 1], MinQSize)

TwoInSpec == TwoInInit /\ [][Next]_vars

\* One input delivering MaxSent - 2 sentences, outputs 2 and 3
TwoOutInit ==
    /\ HIdle
    /\ SysInit([i \in Ifaces |-> IF i = 1 THEN "IN" ELSE "OUT"], NoPair,
               [i \in Ifaces |-> IF i = 1 THEN MaxSent - 2 ELSE 0], MinQSize)

\* Isolation: two inputs and an output, or an input and two outputs, with
\* output devices that can fail
IsoInit == TwoInInit \/ TwoOutInit

IsoSpec == IsoInit /\ [][TearNext]_vars

\* Teardown of a pair: a direction=both serial interface split into its OUT
\* half 1 and its IN duplicate 2, and an independent input 3, one sentence
\* each; the output device can fail
TearInit ==
    /\ HIdle
    /\ SysInit([i \in Ifaces |-> IF i = 1 THEN "OUT" ELSE "IN"],
               [i \in Ifaces |-> IF i = 1 THEN 2 ELSE IF i = 2 THEN 1 ELSE NULL],
               [i \in Ifaces |-> IF i = 1 THEN 0 ELSE 1], MaxSent)

TearSpec == TearInit /\ [][TearNext]_vars /\ Fairness

\* The lists under every direction value: input 1 delivering one sentence,
\* interface 2 with direction=both as options.c sets it and an initialiser
\* that leaves it whole, output 3; NONE comes about by itself when a pair
\* is torn down (TearSpec)
ListInit ==
    /\ HIdle
    /\ SysInit([i \in Ifaces |-> IF i = 1 THEN "IN" ELSE IF i = 2 THEN "BOTH" ELSE "OUT"],
               NoPair, [i \in Ifaces |-> IF i = 1 THEN 1 ELSE 0], MaxSent)

ListSpec == ListInit /\ [][TearNext]_vars

\* Shutdown: the configurations main() can be started with, by direction:
\* outputs only, inputs only, inputs and outputs, and a split pair
TermConfigs ==
    { [d  |-> [i \in Ifaces |-> "OUT"], pr |-> NoPair,
       ns |-> [i \in Ifaces |-> 0]],
      [d  |-> [i \in Ifaces |-> "IN"], pr |-> NoPair,
       ns |-> [i \in Ifaces |-> IF i = 1 THEN 1 ELSE 0]],
      [d  |-> [i \in Ifaces |-> IF i = 3 THEN "OUT" ELSE "IN"], pr |-> NoPair,
       ns |-> [i \in Ifaces |-> IF i = 1 THEN 1 ELSE 0]],
      [d  |-> [i \in Ifaces |-> IF i = 1 THEN "OUT" ELSE "IN"],
       pr |-> [i \in Ifaces |-> IF i = 1 THEN 2 ELSE IF i = 2 THEN 1 ELSE NULL],
       ns |-> [i \in Ifaces |-> IF i = 3 THEN 1 ELSE 0]] }

TermInit ==
    /\ HIdle
    /\ \E c \in TermConfigs : SysInit(c.d, c.pr, c.ns, MaxSent)

TermSpec == TermInit /\ [][TermNext]_vars /\ Fairness

\* the stand-alone queue: any size, any consumer discipline; the multiplexer
\* does not run
QInit ==
    /\ \E size \in MinQSize..MaxQSize :
         /\ hq = init_q(size)
         /\ hmaxheld \in 1..size
    /\ hheld = {}
    /\ hpushed = 0
    /\ hnexts = FALSE
    /\ hret = NoRet
    /\ hretdata = 0
    /\ heos = FALSE
    /\ hwait = FALSE
    /\ hfault = FALSE
    /\ SysInit([i \in Ifaces |-> "OUT"], NoPair, [i \in Ifaces |-> 0], MinQSize)

QSpec == QInit /\ [][QNextStep]_vars

(***************************************************************************)
(* Properties of the stand-alone queue                                     *)
(***************************************************************************)
NoDup(s) == \A i, j \in 1..Len(s) : i # j => s[i] # s[j]

\* the k-th .. n-th pushed units, by their data
Pushed(k, n) == [i \in 1..(n - k + 1) |-> k + i - 1]

\* C1: with no next_senblk so far, after n pushes on a fresh queue the FIFO
\* chain holds exactly the last min(n, size) pushed units in push order (the
\* first n - size are gone) and the other slots are still on the free list.
C1_TailPreserving ==
    (~hnexts /\ ~hfault) =>
        LET n == hpushed
            k == IF n > hq.size THEN n - hq.size ELSE 0
        IN /\ ChainData(hq) = Pushed(k + 1, n)
           /\ Len(FreeList(hq)) = hq.size - (n - k)

\* size + 2 pushes and no next_senblk: two units have been dropped
C1_Witness ==
    ~hnexts /\ ~hfault /\ hpushed = hq.size + 2 /\ hq.free = NULL

\* C2: every push completes: no push ever stops in a fault, whatever the
\* occupancy, the active flag and the number of slots the consumer holds.
C2_PushCompletes == ~hfault

\* C3: every slot is in exactly one place (FIFO chain, free list, or held by
\* the consumer), both lists are acyclic and no slot links to itself.
C3_SlotOwnership ==
    ~hfault =>
        LET ch == Chain(hq)
            fr == FreeList(hq)
        IN /\ \A s \in 1..hq.size : hq.next[s] # s
           /\ Len(ch) <= hq.size /\ Len(fr) <= hq.size
           /\ NoDup(ch) /\ NoDup(fr)
           /\ SeqSet(ch) \cap SeqSet(fr) = {}
           /\ SeqSet(ch) \cap hheld = {}
           /\ SeqSet(fr) \cap hheld = {}
           /\ SeqSet(ch) \cup SeqSet(fr) \cup hheld = 1..hq.size

QNextReturns == QNext /\ ~hwait'

\* C5: next_senblk returns NULL exactly when, at that moment, the FIFO is
\* empty and the queue inactive; on a non-empty queue, closed or not, it
\* returns the unit at the head; an empty active queue makes it wait.
C5_EosIff ==
    [][ /\ QNextReturns =>
            /\ (hret' = NULL) <=> (hq.qhead = NULL /\ ~hq.active)
            /\ hq.qhead # NULL =>
                  /\ hret' = hq.qhead
                  /\ hretdata' = hq.blk[hq.qhead].data
                  /\ hq'.qhead = hq.next[hq.qhead]
        /\ (QNext /\ hq.qhead = NULL /\ hq.active) => hwait'
      ]_vars

\* a unit returned from a closed queue, with more behind it
C5_Witness ==
    /\ ~hq.active
    /\ hret # NULL /\ hret # NoRet
    /\ hq.qhead # NULL
    /\ ~heos

\* C6: once next_senblk has returned end-of-stream, the last next_senblk
\* result is end-of-stream for ever.
C6_EosMonotone == heos => hret = NULL

\* C19: closing any queue twice in a row leaves it inactive with the FIFO
\* chain, the free list and every slot as they were before the first close:
\* only the active flag has changed, and the second close changes nothing.
C19_CloseIdempotent ==
    LET q1 == push_senblk(NullBlk, hq)
        q2 == push_senblk(NullBlk, q1)
    IN /\ ~q1.active /\ ~q2.active
       /\ q2 = q1
       /\ Chain(q2) = Chain(hq) /\ ChainData(q2) = ChainData(hq)
       /\ FreeList(q2) = FreeList(hq)
       /\ q2 = [hq EXCEPT !.active = FALSE]

\* a closed queue with a unit enqueued, a slot free and a slot held
C19_Witness ==
    /\ ~hq.active /\ ~hfault
    /\ hq.qhead # NULL /\ hq.free # NULL /\ hheld # {}

\* C20: with a consumer that holds one slot at a time, the FIFO chain is at
\* any moment the most recently pushed units in push order, and every unit
\* next_senblk returns was pushed after the unit it returned before (so the
\* returned units are a subsequence of the pushed ones, none twice).
C20_Overrun ==
    /\ []((hmaxheld = 1 /\ ~hfault) =>
            LET n == Len(Chain(hq))
            IN n <= hq.size /\ ChainData(hq) = Pushed(hpushed - n + 1, hpushed))
    /\ [][(hmaxheld = 1 /\ ~hfault /\ ~heos /\ QNextReturns /\ hret' # NULL)
              => hretdata' > hretdata]_vars

(***************************************************************************)
(* Properties of the running multiplexer                                   *)
(***************************************************************************)
DataOf(us) == [k \in 1..Len(us) |-> us[k].data]

\* C7: no sentence whose src is the input half of a split pair is ever
\* pushed onto the private queue of the output half it was paired with.
C7_NoLoop ==
    \A o \in Ifaces :
        pair0[o] # NULL =>
            \A k \in 1..Len(opushed[o]) : opushed[o][k].src # pair0[o]

\* C8: an output that has observed end-of-stream has received exactly the
\* input's sentences, each once and in order.
C8_FanOut ==
    \A o \in Ifaces :
        eosseen[o] => DataOf(recv[o]) = Pushed(1, MaxSent - 1)

\* the sequence a is a subsequence of b, in the same order
RECURSIVE IsSubseq(_, _)
IsSubseq(a, b) ==
    IF a = <<>> THEN TRUE
    ELSE IF b = <<>> THEN FALSE
    ELSE IF Head(a) = Head(b) THEN IsSubseq(Tail(a), Tail(b))
    ELSE IsSubseq(a, Tail(b))

StrictlyUp(ds) == \A k \in 1..(Len(ds) - 1) : ds[k] < ds[k + 1]

\* C9: the engine dequeues the single input's sentences in the order they
\* were pushed, and what it pushes onto any one output's queue is a
\* subsequence, in the same order, of what it dequeued.
C9_Ordering ==
    /\ StrictlyUp(DataOf(edeq))
    /\ \A o \in Ifaces : IsSubseq(opushed[o], edeq)

\* C10: with both inputs bound to end, the multiplexer never comes to rest
\* before the supervisor's exit(0): while the process runs, some thread can
\* still take a step (the queue gets closed, the engine passes end-of-stream
\* on, the output thread exits, the supervisor reaps).
C10_NoRest == pstate = "run" => ENABLED Next

(***************************************************************************)
(* Shutdown and teardown                                                   *)
(***************************************************************************)
\* C11: once SIGTERM or SIGINT has been delivered, the process eventually
\* exits with status 0 (which main() does only after joining every thread
\* on the dead list and finding inputs and outputs empty).
C11_Shutdown == sigterm ~> (pstate = "exit0")

\* C12: every interface whose thread has left its read or write routine is
\* eventually put on the dead list by unlink_interface and then joined and
\* freed by main().
C12_Reaped ==
    \A i \in Ifaces : (tpc[i] = "unlink") ~> (tpc[i] = "reaped")

ListNames == {"initialized", "inputs", "outputs", "dead"}

\* the lists on which interface i is found
ListsWith(i) == {l \in ListNames : i \in SeqSet(ListOf(lists[l]))}

\* C13: every interface that main() has not freed yet is on exactly one of
\* the lists initialized, inputs, outputs and dead, whatever its direction
\* and whatever start_interface and unlink_interface did for the others; a
\* freed interface is on none.
C13_Membership ==
    \A i \in Ifaces :
        Cardinality(ListsWith(i)) = IF tpc[i] = "reaped" THEN 0 ELSE 1

\* the interface has been through unlink_interface (it is on dead, or freed)
Unlinked(i) == tpc[i] \in {"done", "reaped"}

\* the output half o of a split pair has outlived its input half
InputHalfGone(o) ==
    /\ pair0[o] # NULL
    /\ dirn[o] = "OUT"
    /\ Unlinked(pair0[o])
    /\ ~Unlinked(o)

OutputHalfGone(p) ==
    /\ pair0[p] # NULL
    /\ dirn[p] # "OUT"
    /\ Unlinked(pair0[p])
    /\ ~Unlinked(p)

\* C15: once the output half of a split pair has been unlinked while the
\* input half lives, the input half has direction NONE, and it is eventually
\* unlinked: off the inputs list and on the dead list (or already freed).
C15_OutputFirst ==
    /\ [](\A p \in Ifaces : OutputHalfGone(p) => dirn[p] = "NONE")
    /\ \A p \in Ifaces :
          OutputHalfGone(p) ~> (Unlinked(p) /\ p \notin SeqSet(ListOf(lists.inputs)))

\* the thread of the interface has not left its read or write routine yet
Running(i) == tpc[i] \in {"start", "read", "write", "wwait", "wheld"}

\* C16: unlink_interface is entered once for an interface whose thread has
\* exited and never otherwise, and every entry invokes the cleanup routine:
\* at any moment the two counts are equal, 0 while the thread runs and 1
\* once the interface has been unlinked.
C16_ExactlyOnce ==
    \A i \in Ifaces :
        /\ nunlink[i] <= 1
        /\ ncleanup[i] = nunlink[i]
        /\ Running(i) => nunlink[i] = 0
        /\ Unlinked(i) => nunlink[i] = 1

\* C17: no thread is ever made to exit by SIGUSR1 while it holds a mutex:
\* the central queue's q_mutex is never left locked by a thread that
\* terminate() ended inside push_senblk.
C17_NoSignalUnderLock == eqlock = NULL

\* a list after the step, and a list before the step without interface i
ListAfter(l) == IfWalk(ifnext', lists'[l], Cardinality(Ifaces) + 1)
ListWithout(l, i) == SelectSeq(ListOf(lists[l]), LAMBDA x : x # i)

\* the inputs and the outputs that stay when interface i goes
InputsBesides(i) == SeqSet(ListOf(lists.inputs)) \ {i}
OutputsBesides(i) == SeqSet(ListOf(lists.outputs)) \ {i}

\* interface i leaving: its unlink_interface, and the turn of the reaper
\* loop that joins and frees it
UnlinkStep(i) == unlink_interface(i)
ReapStep(i) == MainReap /\ i \in SeqSet(ListOf(lists.dead))

\* nothing but the leaving interface (and whatever else is on dead) changes
Untouched(i) ==
    /\ eq' = eq /\ oq' = oq
    /\ dirn' = dirn /\ pair' = pair
    /\ usr1' = usr1
    /\ pstate' = "run"
    /\ \A j \in Ifaces : Running(j) => tpc'[j] = tpc[j]
    /\ ListAfter("initialized") = ListOf(lists.initialized)
    /\ ListAfter("inputs") = ListWithout("inputs", i)
    /\ ListAfter("outputs") = ListWithout("outputs", i)
    /\ UnlinkStep(i) => ListAfter("dead") = Append(ListOf(lists.dead), i)
    /\ ReapStep(i) => ListAfter("dead") = <<>>

\* C18 as stated: an unpaired interface leaving while another input remains
\* on inputs changes nothing else, in its unlink and in its reaping
C18_Isolation ==
    [][ \A i \in Ifaces :
          (pair0[i] = NULL /\ InputsBesides(i) # {} /\ (UnlinkStep(i) \/ ReapStep(i)))
              => Untouched(i) ]_vars

\* C18 amended: the same while another input and another output remain
C18_IsolationOutputs ==
    [][ \A i \in Ifaces :
          (/\ pair0[i] = NULL
           /\ InputsBesides(i) # {} /\ OutputsBesides(i) # {}
           /\ UnlinkStep(i) \/ ReapStep(i))
              => Untouched(i) ]_vars

\* an input has been unlinked and freed while the other input reads on,
\* unsignalled, the output is on its list and the central queue is open
C18_Witness ==
    /\ dirn = [i \in Ifaces |-> IF i = 3 THEN "OUT" ELSE "IN"]
    /\ tpc[1] = "reaped" /\ tpc[2] = "read" /\ ~usr1[2]
    /\ ListOf(lists.inputs) = <<2>> /\ ListOf(lists.outputs) = <<3>>
    /\ eq.active /\ pstate = "run"

(***************************************************************************)
(* main(): the queue size taken from -q and from the [global] section      *)
(***************************************************************************)
\* the characters option values are made of: a sign, digits, a non-digit
CfgChars == {"-", "0", "1", "2", "x"}
\* longest option value explored
MaxArgLen == 2
\* the default size of the central queue
DEFQUEUESZ == 128

\* option values: strings of at most n characters
Strings(n) == UNION {[1..k -> CfgChars] : k \in 0..n}

DigitVal(c) == CASE c = "0" -> 0 [] c = "1" -> 1 [] c = "2" -> 2 [] OTHER -> -1

\* the leading decimal digits of s, accumulated onto acc
RECURSIVE AtoiDigits(_, _)
AtoiDigits(s, acc) ==
    IF s = <<>> \/ DigitVal(Head(s)) < 0
    THEN acc
    ELSE AtoiDigits(Tail(s), acc * 10 + DigitVal(Head(s)))

\* atoi: an optional sign, then digits up to the first other character;
\* 0 when there is no digit
atoi(s) ==
    IF s # <<>> /\ Head(s) = "-"
    THEN 0 - AtoiDigits(Tail(s), 0)
    ELSE AtoiDigits(s, 0)

\* the option lists of a [global] section: at most one qsize, before or
\* after an option that is not qsize
GlobalOptions ==
    LET mode == [var |-> "mode", val |-> <<"x">>]
        qs == {[var |-> "qsize", val |-> v] : v \in Strings(MaxArgLen)}
    IN {<<>>, <<mode>>} \cup {<<q>> : q \in qs}
         \cup {<<mode, q>> : q \in qs} \cup {<<q, mode>> : q \in qs}

\* getopt delivers -q: qsize is set from the argument, below 2 is an error
GetoptQ ==
    /\ cpc = "getopt"
    /\ argq # <<>>
    /\ qsize' = atoi(Head(argq))
    /\ err' = IF qsize' < MinQSize THEN err + 1 ELSE err
    /\ argq' = Tail(argq)
    /\ UNCHANGED <<cpc, gopts, cq, ivars, pvars, rvars>>
    /\ UNCHANGED <<hvars, svars, xvars>>

\* getopt is through: exit(1) if any argument was in error
GetoptEnd ==
    /\ cpc = "getopt"
    /\ argq = <<>>
    /\ cpc' = IF err # 0 THEN "exit1" ELSE "options"
    /\ UNCHANGED <<argq, gopts, qsize, err, cq, ivars, pvars, rvars>>
    /\ UNCHANGED <<hvars, svars, xvars>>

\* the test main() makes on the qsize of the [global] section
QsizeRefused(n) == n = 0

\* one turn of the loop over the options of the [global] section: qsize is
\* taken only if -q has not set it
GlobalOption ==
    /\ cpc = "options"
    /\ gopts # <<>>
    /\ LET o == Head(gopts)
           n == atoi(o.val)
       IN IF o.var = "qsize" /\ qsize = 0
          THEN /\ qsize' = n
               /\ cpc' = IF QsizeRefused(n) THEN "exit1" ELSE cpc
          ELSE UNCHANGED <<qsize, cpc>>
    /\ gopts' = Tail(gopts)
    /\ UNCHANGED <<argq, err, cq, ivars, pvars, rvars>>
    /\ UNCHANGED <<hvars, svars, xvars>>

\* init_q(qsize?qsize:DEFQUEUESZ); a negative int is a size_t no calloc can
\* serve, init_q returns NULL and main() exits
BuildQueue ==
    /\ cpc = "options"
    /\ gopts = <<>>
    /\ LET size == IF qsize # 0 THEN qsize ELSE DEFQUEUESZ
       IN IF size < 0
          THEN cpc' = "exit1" /\ UNCHANGED cq
          ELSE cpc' = "built" /\ cq' = <<init_q(size)>>
    /\ UNCHANGED <<argq, gopts, qsize, err, ivars, pvars, rvars>>
    /\ UNCHANGED <<hvars, svars, xvars>>

CfgNext == GetoptQ \/ GetoptEnd \/ GlobalOption \/ BuildQueue

\* main() entered with at most one -q and a [global] section
\* main() at stage m, before any interface is initialised: the directions
\* are those of the configuration, no list has a member, no thread exists
PreInit(d, m) ==
    /\ dirn = d
    /\ pair = NoPair
    /\ pair0 = NoPair
    /\ ifnext = [i \in Ifaces |-> NULL]
    /\ lists = [initialized |-> NULL, inputs |-> NULL, outputs |-> NULL, dead |-> NULL]
    /\ eq = init_q(MinQSize)
    /\ oq = [i \in Ifaces |-> init_q(OutQSize)]
    /\ qfreed = [i \in Ifaces |-> FALSE]
    /\ tpc = [i \in Ifaces |-> "none"]
    /\ wslot = [i \in Ifaces |-> NULL]
    /\ nsent = [i \in Ifaces |-> 0]
    /\ npushed = [i \in Ifaces |-> 0]
    /\ usr1 = [i \in Ifaces |-> FALSE]
    /\ epc = "none"
    /\ esptr = NULL
    /\ mpc = m
    /\ pstate = "run"
    /\ timetodie = 0
    /\ edeq = <<>>
    /\ opushed = [i \in Ifaces |-> <<>>]
    /\ recv = [i \in Ifaces |-> <<>>]
    /\ eosseen = [i \in Ifaces |-> FALSE]
    /\ sigterm = FALSE
    /\ eqlock = NULL
    /\ nunlink = [i \in Ifaces |-> 0]
    /\ ncleanup = [i \in Ifaces |-> 0]
    /\ restored = [i \in Ifaces |-> FALSE]
    /\ woken = FALSE

\* main() entered with at most one -q argument and a [global] section
CfgInit ==
    /\ HIdle
    /\ PreInit([i \in Ifaces |-> "NONE"], "config")
    /\ cpc = "getopt"
    /\ argq \in {<<>>} \cup {<<v>> : v \in Strings(MaxArgLen)}
    /\ gopts \in GlobalOptions
    /\ qsize = 0
    /\ err = 0
    /\ cq = <<>>
    /\ ifptr = NULL
    /\ ifptr2 = NULL
    /\ PIdle
    /\ RIdle

CfgSpec == CfgInit /\ [][CfgNext]_vars

(***************************************************************************)
(* main(): the interfaces initialised, the threads created                 *)
(***************************************************************************)
\* the configured interfaces in the order of e_info->next
CfgNextOf(i) == IF i + 1 \in Ifaces THEN i + 1 ELSE NULL

\* one turn of the initialisation loop: the initialiser of interface ifptr
\* returns the interface, which is appended to the initialized list, or
\* NULL, which sets timetodie and leaves the loop
InitIface ==
    /\ pstate = "run"
    /\ mpc = "init"
    /\ ifptr # NULL
    /\ \E ok \in BOOLEAN :
         IF ok
         THEN /\ lists' = IF lists.initialized = NULL
                          THEN [lists EXCEPT !.initialized = ifptr]
                          ELSE lists
              /\ ifnext' = IF lists.initialized = NULL
                           THEN [ifnext EXCEPT ![ifptr] = NULL]
                           ELSE [ifnext EXCEPT
                                   ![Last(ifnext, lists.initialized, Cardinality(Ifaces))] = ifptr,
                                   ![ifptr] = NULL]
              /\ ifptr' = CfgNextOf(ifptr)
              /\ mpc' = IF CfgNextOf(ifptr) = NULL THEN "keycreate" ELSE mpc
              /\ UNCHANGED timetodie
         ELSE /\ timetodie' = timetodie + 1
              /\ mpc' = "keycreate"
              /\ UNCHANGED <<lists, ifnext, ifptr>>
    /\ ifptr2' = CfgNextOf(ifptr)
    /\ UNCHANGED <<dirn, pair, eq, oq, qfreed, tpc, wslot, nsent, npushed, usr1, epc,
                   esptr, pstate, pair0, edeq, opushed, recv, eosseen>>
    /\ UNCHANGED <<qvars, pvars, rvars>>
    /\ UNCHANGED <<hvars, xvars>>

\* pthread_key_create, whose failure sets timetodie too; then the test of
\* timetodie: the teardown loop starts at the head of initialized
MainKeyCreate ==
    /\ pstate = "run"
    /\ mpc = "keycreate"
    /\ \E ok \in BOOLEAN :
         LET ttd == IF ok THEN timetodie ELSE timetodie + 1
         IN /\ timetodie' = ttd
            /\ mpc' = IF ttd # 0 THEN "destroy" ELSE "spawn"
    /\ ifptr' = lists.initialized
    /\ UNCHANGED <<dirn, pair, ifnext, lists, eq, oq, qfreed, tpc, wslot, nsent, npushed,
                   usr1, epc, esptr, pstate, pair0, edeq, opushed, recv, eosseen>>
    /\ UNCHANGED <<qvars, pvars, ifptr2, rvars>>
    /\ UNCHANGED <<hvars, xvars>>

\* the teardown loop: ifptr2 is saved and iface_destroy(ifptr) called, which
\* is unlink_interface run by main(); when it has returned the loop goes on
\* with ifptr2; at the end of the list exit(1)
MainDestroy ==
    /\ pstate = "run"
    /\ mpc = "destroy"
    /\ IF ifptr = NULL
       THEN /\ pstate' = "exit1"
            /\ UNCHANGED <<tpc, ifptr, ifptr2>>
       ELSE IF tpc[ifptr] = "done"
       THEN /\ ifptr' = ifptr2
            /\ UNCHANGED <<tpc, pstate, ifptr2>>
       ELSE /\ tpc[ifptr] = "none"
            /\ tpc' = [tpc EXCEPT ![ifptr] = "unlink"]
            /\ ifptr2' = ifnext[ifptr]
            /\ UNCHANGED <<pstate, ifptr>>
    /\ UNCHANGED <<dirn, pair, ifnext, lists, eq, oq, qfreed, wslot, nsent, npushed,
                   usr1, epc, esptr, mpc, timetodie, pair0, edeq, opushed, recv, eosseen>>
    /\ UNCHANGED <<qvars, pvars, rvars>>
    /\ UNCHANGED <<hvars, xvars>>

\* no failure: the engine thread and, with io_mutex held, one thread for
\* every interface on initialized are created; main() waits on init_cond
MainSpawn ==
    /\ pstate = "run"
    /\ mpc = "spawn"
    /\ epc' = "next"
    /\ tpc' = [i \in Ifaces |->
                 IF i \in SeqSet(ListOf(lists.initialized)) THEN "start" ELSE tpc[i]]
    /\ mpc' = "initwait"
    /\ UNCHANGED <<dirn, pair, ifnext, lists, eq, oq, qfreed, wslot, nsent, npushed,
                   usr1, esptr, pstate, timetodie, pair0, edeq, opushed, recv, eosseen>>
    /\ UNCHANGED <<hvars, xvars, cvars>>

StartNext ==
    \/ InitIface
    \/ MainKeyCreate
    \/ MainDestroy
    \/ MainSpawn
    \/ \E i \in Ifaces : unlink_interface(i)

\* main() about to initialise its interfaces, every one an input or an
\* output
StartInit ==
    /\ HIdle
    /\ \E d \in [Ifaces -> {"IN", "OUT"}] : PreInit(d, "init")
    /\ cpc = "done"
    /\ argq = <<>>
    /\ gopts = <<>>
    /\ qsize = 0
    /\ err = 0
    /\ cq = <<>>
    /\ ifptr = 1
    /\ ifptr2 = NULL
    /\ PIdle
    /\ RIdle

StartSpec == StartInit /\ [][StartNext]_vars

(***************************************************************************)
(* options.c: one line of the configuration file read by next_config       *)
(***************************************************************************)
\* the terminating NUL of a C string
NUL == "\\0"
\* longest option value explored in a configuration line
MaxValLen == 2

\* *ptr for a pointer p into the string b held in configbuf
At(b, p) == IF p \in 1..Len(b) THEN b[p] ELSE NUL

\* for (;*ptr == ' ' || *ptr == '\t'; ptr++);
RECURSIVE SkipWs(_, _)
SkipWs(b, p) == IF At(b, p) \in {" ", "\t"} THEN SkipWs(b, p + 1) ELSE p

\* the scan of the variable name: where '=', ' ' or '\t' stands, NULL when
\* the string ends before
RECURSIVE ScanVar(_, _)
ScanVar(b, p) ==
    IF At(b, p) \in {"=", " ", "\t"} THEN p
    ELSE IF At(b, p) = NUL THEN NULL
    ELSE ScanVar(b, p + 1)

\* the scan of a quoted value: where the quote character stands again; the
\* loop tests nothing else, NULL when it leaves the string
RECURSIVE ScanQuote(_, _, _)
ScanQuote(b, p, quote) ==
    IF p > Len(b) THEN NULL
    ELSE IF b[p] = quote THEN p
    ELSE ScanQuote(b, p + 1, quote)

\* the scan of an unquoted value: where ' ', '\t', '\n', '#' or NUL stands
RECURSIVE ScanVal(_, _)
ScanVal(b, p) ==
    IF At(b, p) \in {" ", "\t", "\n", "#", NUL} THEN p ELSE ScanVal(b, p + 1)

\* what next_config hands back: its return value, whether *var is not NULL,
\* and the strings *var and *val point to
Returned(r, hv, var, val) ==
    [st |-> "ret", ret |-> r, hasvar |-> hv, var |-> var, val |-> val]

\* next_config for the line b just read, eof being feof(fp): the outcomes
\* it can have.  A line that is blank or a comment makes it read on
\* ("continue"); a quoted value returns -1 behind the loop that finds the
\* closing quote, and without a closing quote the loop reads on beyond the
\* string, into whatever the buffer and the memory behind it hold
next_config(b, eof) ==
    LET p0 == SkipWs(b, 1)
        p1 == ScanVar(b, p0)
        var == SubSeq(b, p0, p1 - 1)
        pe == IF At(b, p1) = "=" THEN p1 ELSE SkipWs(b, p1 + 1)
        p3 == SkipWs(b, pe + 1)
        pq == ScanQuote(b, p3 + 1, At(b, p3))
        pv == ScanVal(b, p3)
        val == SubSeq(b, p3, pv - 1)
        pt == SkipWs(b, pv + 1)
    IN IF At(b, p0) \in {"#", "\n", NUL}
       THEN {[st |-> "continue", ret |-> 0, hasvar |-> FALSE, var |-> <<>>, val |-> <<>>]}
       ELSE IF At(b, p0) = "["
       THEN {Returned(0, FALSE, <<>>, <<>>)}
       ELSE IF p1 = NULL
       THEN {Returned(-1, TRUE, <<>>, <<>>)}
       ELSE IF At(b, pe) # "="
       THEN {Returned(-1, TRUE, var, <<>>)}
       ELSE IF At(b, p3) \in {"'", "\""}
       THEN IF pq # NULL
            THEN {Returned(-1, TRUE, var, SubSeq(b, p3 + 1, pq - 1))}
            ELSE {Returned(-1, TRUE, var, <<>>),
                  [st |-> "segv", ret |-> -1, hasvar |-> TRUE, var |-> var, val |-> <<>>]}
       ELSE IF At(b, pv) \in {"\n", "#"}
       THEN {Returned(0, TRUE, var, val)}
       ELSE IF At(b, pv) = NUL
       THEN {Returned(IF eof THEN 0 ELSE -1, TRUE, var, val)}
       ELSE IF At(b, pt) \in {"\n", "#", NUL}
       THEN {Returned(0, TRUE, var, val)}
       ELSE {Returned(-1, TRUE, var, val)}

\* next_config called for the line in configbuf
NextConfig ==
    /\ ppc = "next_config"
    /\ \E r \in next_config(cline, atEof) : nc' = <<r>>
    /\ ppc' = "returned"
    /\ UNCHANGED <<cline, atEof, cfile, fpos, list, ifpp, desc>>
    /\ UNCHANGED <<hvars, svars, xvars, qvars, ivars, rvars>>

LineNext == NextConfig

\* the parts configuration lines are made of
Keys == {<<"k">>, <<"k", "k">>}
Blanks == {<<>>, <<" ">>}
Quotes == {"'", "\""}
Trails == {<<>>, <<" ">>, <<" ", "#", "v">>, <<"v">>}
Eols == {<<>>, <<"\n">>}
\* values: the text between quotes, spaces allowed
QValues == UNION {[1..n -> {"v", " "}] : n \in 0..MaxValLen}
\* values without quotes
UValues == UNION {[1..n -> {"v"}] : n \in 0..MaxValLen}

\* key = <open>value<close> trail
Line(k, w1, w2, open, v, close, tr, eol) ==
    k \o w1 \o <<"=">> \o w2 \o open \o v \o close \o tr \o eol

\* the lines explored: quoted values with the closing quote, with another
\* one and with none, unquoted values, and lines that are no assignment
Lines ==
    {Line(k, w1, w2, <<q>>, v, c, tr, e) :
        k \in Keys, w1 \in Blanks, w2 \in Blanks, q \in Quotes, v \in QValues,
        c \in {<<>>, <<"'">>, <<"\"">>}, tr \in Trails, e \in Eols}
    \cup {Line(k, w1, w2, <<>>, v, <<>>, tr, e) :
        k \in Keys, w1 \in Blanks, w2 \in Blanks, v \in UValues, tr \in Trails, e \in Eols}
    \cup {<<"\n">>, <<" ", "\n">>, <<"#", "k", "\n">>, <<"[", "k", "]", "\n">>,
          <<"k", "\n">>, <<"k", " ", "v", "\n">>, <<>>}

\* fgets has read a line; at the end of the file only if no newline ends it
LineInit ==
    /\ HIdle
    /\ PreInit([i \in Ifaces |-> "NONE"], "config")
    /\ cpc = "options" /\ argq = <<>> /\ gopts = <<>> /\ qsize = 0 /\ err = 0 /\ cq = <<>>
    /\ ifptr = NULL /\ ifptr2 = NULL
    /\ cline \in Lines
    /\ atEof \in (IF cline # <<>> /\ cline[Len(cline)] = "\n" THEN {FALSE} ELSE BOOLEAN)
    /\ nc = <<>>
    /\ cfile = <<>> /\ fpos = 0 /\ list = NULL /\ ifpp = NULL /\ desc = <<>>
    /\ ppc = "next_config"
    /\ RIdle

LineSpec == LineInit /\ [][LineNext]_vars

(***************************************************************************)
(* options.c: the configuration file read section by section by parse_file *)
(***************************************************************************)
\* most sections explored in a configuration file
MaxSections == 3

\* a section as parse_file meets it: the type get_interface_section finds
\* in its header ("BAD" when it returns -1), and what get_config makes of
\* its body: NULL ("bad") or a descriptor with the direction the body set
Sections ==
    {[type |-> "GLOBAL", body |-> b, direction |-> "NONE"] : b \in {"ok", "bad"}}
    \cup {[type |-> "IFACE", body |-> "ok", direction |-> d] : d \in {"IN", "OUT", "NONE"}}
    \cup {[type |-> "IFACE", body |-> "bad", direction |-> "NONE"],
          [type |-> "BAD", body |-> "bad", direction |-> "NONE"]}

\* mutant: a [global] header is never taken for a duplicate
DuplicateGlobal_never(type) == FALSE

\* type == GLOBAL && list && list->type == GLOBAL
DuplicateGlobal(type) ==
    type = "GLOBAL" /\ list # NULL /\ desc[list].type = "GLOBAL"

\* exit(1), from parse_file itself or through lineerror
ParseExit ==
    /\ ppc' = "exit1"
    /\ pstate' = "exit1"
    /\ UNCHANGED <<list, ifpp, desc>>

\* one turn of parse_file's loop for a section of the file: the header is
\* read, a second [global] refused, the body read by get_config, a [global]
\* descriptor put at the head of the list and any other at *ifpp
ParseSection ==
    /\ ppc = "section"
    /\ fpos < Len(cfile)
    /\ fpos' = fpos + 1
    /\ LET sec == cfile[fpos + 1]
           id == Len(desc) + 1
           ifp == [type |-> sec.type, direction |-> sec.direction, next |-> NULL,
                   sec |-> fpos + 1]
       IN IF sec.type = "BAD" \/ DuplicateGlobal(sec.type) \/ sec.body # "ok"
          THEN ParseExit
          ELSE IF sec.type = "GLOBAL"
          THEN /\ desc' = Append(desc, [ifp EXCEPT !.next = list])
               /\ list' = id
               /\ ifpp' = IF ifpp = NULL THEN id ELSE ifpp
               /\ UNCHANGED <<ppc, pstate>>
          ELSE IF sec.direction = "NONE"
          THEN ParseExit
          ELSE /\ desc' = IF ifpp = NULL
                          THEN Append(desc, ifp)
                          ELSE Append([desc EXCEPT ![ifpp].next = id], ifp)
               /\ list' = IF ifpp = NULL THEN id ELSE list
               /\ ifpp' = id
               /\ UNCHANGED <<ppc, pstate>>
    /\ UNCHANGED <<cline, atEof, nc, cfile>>
    /\ UNCHANGED <<dirn, pair, ifnext, lists, eq, oq, qfreed, tpc, wslot, nsent, npushed,
                   usr1, epc, esptr, mpc, timetodie, pair0, edeq, opushed, recv, eosseen>>
    /\ UNCHANGED <<hvars, xvars, qvars, ivars, rvars>>

\* the end of the file: unless a [global] descriptor heads the list the
\* descriptor of get_default_global is put before it; the list is returned
ParseEnd ==
    /\ ppc = "section"
    /\ fpos = Len(cfile)
    /\ IF list = NULL \/ desc[list].type # "GLOBAL"
       THEN /\ desc' = Append(desc, [type |-> "GLOBAL", direction |-> "NONE",
                                     next |-> list, sec |-> 0])
            /\ list' = Len(desc) + 1
       ELSE UNCHANGED <<desc, list>>
    /\ ppc' = "returned"
    /\ UNCHANGED <<cline, atEof, nc, cfile, fpos, ifpp>>
    /\ UNCHANGED <<hvars, svars, xvars, qvars, ivars, rvars>>

FileNext == ParseSection \/ ParseEnd

\* parse_file has opened a file of at most MaxSections sections
FileInit ==
    /\ HIdle
    /\ PreInit([i \in Ifaces |-> "NONE"], "config")
    /\ cpc = "options" /\ argq = <<>> /\ gopts = <<>> /\ qsize = 0 /\ err = 0 /\ cq = <<>>
    /\ ifptr = NULL /\ ifptr2 = NULL
    /\ cline = <<>> /\ atEof = FALSE /\ nc = <<>>
    /\ cfile \in UNION {[1..n -> Sections] : n \in 0..MaxSections}
    /\ fpos = 0
    /\ list = NULL
    /\ ifpp = NULL
    /\ desc = <<>>
    /\ ppc = "section"
    /\ RIdle

FileSpec == FileInit /\ [][FileNext]_vars

\* the list parse_file has built, as the sections its descriptors come from
\* (0 for the descriptor of get_default_global)
RECURSIVE DescWalk(_, _)
DescWalk(d, fuel) ==
    IF d = NULL \/ fuel = 0 THEN <<>>
    ELSE <<desc[d].sec>> \o DescWalk(desc[d].next, fuel - 1)

(***************************************************************************)
(* main(): the reaper loop with its wait on dead_cond, step by step.       *)
(* main() holds io_mutex from line 743 on and gives it up only inside      *)
(* pthread_cond_wait, so start_interface and unlink_interface, which take  *)
(* io_mutex, run only while main() waits.                                  *)
(***************************************************************************)
\* io_mutex is free: main() is inside one of its two pthread_cond_wait calls
IoFree == mpc \in {"initwait", "waiting"}

\* while (lists.dead == NULL && !timetodie)
WaitCondition == lists.dead = NULL /\ timetodie = 0

\* the test of the inner loop found nothing to do: pthread_cond_wait is
\* about to be called
ReapToWait ==
    /\ pstate = "run"
    /\ mpc = "reap"
    /\ lists.outputs # NULL \/ lists.inputs # NULL \/ lists.dead # NULL
    /\ WaitCondition
    /\ mpc' = "towait"
    /\ UNCHANGED <<dirn, pair, ifnext, lists, eq, oq, qfreed, tpc, wslot, nsent, npushed,
                   usr1, epc, esptr, pstate, timetodie, pair0, edeq, opushed, recv, eosseen>>
    /\ UNCHANGED <<hvars, xvars, cvars>>

\* pthread_cond_wait entered: io_mutex released, main() asleep on dead_cond
ReapWait ==
    /\ pstate = "run"
    /\ mpc = "towait"
    /\ mpc' = "waiting"
    /\ UNCHANGED <<dirn, pair, ifnext, lists, eq, oq, qfreed, tpc, wslot, nsent, npushed,
                   usr1, epc, esptr, pstate, timetodie, pair0, edeq, opushed, recv, eosseen>>
    /\ UNCHANGED <<hvars, xvars, cvars>>

\* pthread_cond_wait returns, io_mutex held again: dead_cond was signalled
\* while main() waited, by unlink_interface (which has put its interface on
\* dead) or by killemall
ReapWake ==
    /\ pstate = "run"
    /\ mpc = "waiting"
    /\ lists.dead # NULL \/ woken
    /\ mpc' = "reap"
    /\ woken' = FALSE
    /\ UNCHANGED <<dirn, pair, ifnext, lists, eq, oq, qfreed, tpc, wslot, nsent, npushed,
                   usr1, epc, esptr, pstate, timetodie, pair0, edeq, opushed, recv, eosseen>>
    /\ UNCHANGED <<sigterm, eqlock, nunlink, ncleanup, restored>>
    /\ UNCHANGED <<hvars, cvars>>

\* the multiplexer with main()'s waits spelt out and SIGTERM from outside
ReapNext ==
    \/ \E i \in Ifaces : IoFree /\ start_interface(i)
    \/ \E i \in Ifaces : ReadPush(i)
    \/ \E i \in Ifaces : ReadEnd(i)
    \/ \E i \in Ifaces : Terminate(i)
    \/ \E i \in Ifaces : WriteNext(i)
    \/ \E i \in Ifaces : WriteFree(i)
    \/ \E i \in Ifaces : IoFree /\ unlink_interface(i)
    \/ EngineNext
    \/ EngineFan
    \/ EngineFree
    \/ MainInitDone
    \/ ReapToWait
    \/ ReapWait
    \/ ReapWake
    \/ MainReap
    \/ MainExit
    \/ killemall

ReapThreadStep(i) ==
    \/ IoFree /\ start_interface(i)
    \/ Terminate(i)
    \/ WriteNext(i)
    \/ WriteFree(i)
    \/ IoFree /\ unlink_interface(i)

ReapMainStep ==
    MainInitDone \/ ReapToWait \/ ReapWait \/ ReapWake \/ MainReap \/ MainExit

\* as Fairness: runnable threads run; nothing is promised about the devices
ReapFairness ==
    /\ \A i \in Ifaces : WF_vars(ReapThreadStep(i))
    /\ WF_vars(EngineStep)
    /\ WF_vars(ReapMainStep)

\* input 1 with one sentence to deliver, outputs 2 and 3
ReapInit ==
    /\ HIdle
    /\ SysInit([i \in Ifaces |-> IF i = 1 THEN "IN" ELSE "OUT"], NoPair,
               [i \in Ifaces |-> IF i = 1 THEN 1 ELSE 0], MinQSize)

ReapSpec == ReapInit /\ [][ReapNext]_vars /\ ReapFairness

(***************************************************************************)
(* Start-up and configuration                                              *)
(***************************************************************************)
\* the thread of interface i began start_interface with direction NONE: it
\* has left "start" and its interface is still on the initialized list
BeganNone(i) ==
    /\ tpc[i] # "start"
    /\ i \in SeqSet(ListOf(lists.initialized))

\* interface i is on neither active list after the step
OffActiveAfter(i) ==
    /\ i \notin SeqSet(ListAfter("inputs"))
    /\ i \notin SeqSet(ListAfter("outputs"))

\* C21: an interface whose direction is NONE when its thread begins
\* start_interface exits at once: the step takes it to its exit handler, it
\* is never put on inputs or outputs, and its read or write routine never
\* runs afterwards
C21_NoneExits ==
    [][ \A i \in Ifaces :
          /\ (tpc[i] = "start" /\ dirn[i] = "NONE" /\ tpc'[i] # "start")
                => (tpc'[i] = "unlink" /\ OffActiveAfter(i))
          /\ BeganNone(i)
                => (tpc'[i] \in {"unlink", "done", "reaped"} /\ OffActiveAfter(i)) ]_vars

\* the input half of a pair, made NONE by its sibling's teardown before its
\* thread began, has gone from start_interface to its exit handler
C21_Witness ==
    \E i \in Ifaces :
        /\ dirn[i] = "NONE" /\ tpc[i] = "unlink" /\ BeganNone(i)
        /\ i \notin SeqSet(ListOf(lists.inputs)) \cup SeqSet(ListOf(lists.outputs))
        /\ pstate = "run"

\* C22: the central queue is never built with fewer than 2 slots: whatever
\* -q and the qsize of the [global] section are, init_q is called with a
\* size of at least 2 or the program exits with status 1 before
C22_MinQueue ==
    /\ cpc = "built" => cq # <<>>
    /\ \A k \in DOMAIN cq : cq[k].size >= MinQSize

\* some initialiser, or pthread_key_create, has failed
StartFailed == timetodie # 0 /\ mpc \in {"keycreate", "destroy"}

\* C23: when an initialiser fails, the first or a later one, main() tears
\* down the interfaces already initialised, starts no thread and the process
\* exits with status 1: it ends in no other way, and when it has exited
\* every interface that was on initialized has been through its cleanup
C23_StartupFailure ==
    StartFailed =>
        /\ pstate \in {"run", "exit1"}
        /\ \A i \in Ifaces : tpc[i] \in {"none", "unlink", "done"}
        /\ epc = "none"
        /\ pstate = "exit1" =>
              /\ lists.initialized = NULL \/ tpc[lists.initialized] = "done"
              /\ \A i \in Ifaces : tpc[i] = "done" <=> ncleanup[i] = 1

\* C24: of a split bidirectional serial interface the output half never
\* restores the saved terminal attributes at cleanup, whichever half is torn
\* down first; only the input half (or an unpaired interface) does
C24_OutputNeverRestores ==
    \A o \in Ifaces : (pair0[o] # NULL /\ dirn[o] = "OUT") => ~restored[o]

\* C25: a body line key = 'value' or key = "value" with a non-empty value
\* and the matching closing quote makes next_config return success, *var
\* the key and *val the text between the quotes
C25_Quoted ==
    \A k \in Keys, w1 \in Blanks, w2 \in Blanks, q \in Quotes, e \in Eols,
       v \in QValues \ {<<>>} :
        (nc # <<>> /\ cline = Line(k, w1, w2, <<q>>, v, <<q>>, <<>>, e))
            => \A j \in DOMAIN nc :
                 /\ nc[j].st = "ret" /\ nc[j].ret = 0
                 /\ nc[j].hasvar /\ nc[j].var = k /\ nc[j].val = v

\* the [global] headers among the first n sections of the file
GlobalHeaders(n) == {k \in 1..n : cfile[k].type = "GLOBAL"}

\* C26: at most one [global] section: wherever in the file it stands, a
\* second [global] header makes parse_file exit with status 1, and for a
\* file without [global] section the list parse_file returns begins with
\* the default global descriptor
C26_OneGlobal ==
    /\ Cardinality(GlobalHeaders(fpos)) >= 2 => (ppc = "exit1" /\ pstate = "exit1")
    /\ (ppc = "returned" /\ GlobalHeaders(Len(cfile)) = {})
          => (list # NULL /\ desc[list].type = "GLOBAL" /\ desc[list].sec = 0)

\* a [global] section, an interface section, then a second [global] header:
\* parse_file has exited at the third header
C26_Witness ==
    /\ Len(cfile) = 3 /\ fpos = 3
    /\ cfile[1].type = "GLOBAL" /\ cfile[2].type = "IFACE" /\ cfile[3].type = "GLOBAL"
    /\ DescWalk(list, Len(desc)) = <<1, 2>>
    /\ ppc = "exit1" /\ pstate = "exit1"

\* the inputs still to be promoted or running after the step
InputsLeftAfter ==
    {i \in SeqSet(ListAfter("initialized")) \cup SeqSet(ListAfter("inputs")) :
        dirn'[i] = "IN"}

\* C27: the central queue is closed only by an unlink that leaves no input:
\* when it is closed no input is on the initialized list or on inputs, and
\* the unlink of an OUT interface never closes it
C27_CloseOnlyLast ==
    [][ (eq.active /\ ~eq'.active) =>
          /\ InputsLeftAfter = {}
          /\ \E i \in Ifaces : dirn[i] # "OUT" /\ unlink_interface(i) ]_vars

\* C28: after killemall has set timetodie, at whatever point of the reaper
\* loop, between the test of the wait condition and pthread_cond_wait
\* included, main() eventually wakes and clears the flag (in the turn that
\* sends SIGUSR1 to every interface on inputs), unless the process has ended
C28_TermWakes ==
    (sigterm /\ timetodie # 0) ~> (timetodie = 0 \/ pstate # "run")

\* C29: the wait for initialisation completes: every thread takes its
\* interface off the initialized list, the list becomes empty and main()
\* goes on to the reaper loop, also when an interface was made NONE by its
\* sibling's teardown before its thread began
C29_InitCompletes ==
    (mpc = "initwait") ~> (mpc = "reap" /\ lists.initialized = NULL)

\* C30: timetodie is read and written only while the accessing thread holds
\* io_mutex, the write in the SIGTERM/SIGINT handler included.  Every
\* access is made by main()'s thread (the handler runs there), which holds
\* io_mutex except inside pthread_cond_wait
C30_UnderIoMutex ==
    [][ timetodie' # timetodie => ~IoFree ]_vars

(***************************************************************************)
(* serial.c: read_serial framing the bytes of a serial line into sentences *)
(***************************************************************************)

\* capacity of senblk_t.data (scaled down: one data byte, CR and LF fit)
SENMAX == 3
\* bits of an int (scaled down; SENMAX still fits an int)
IntBits == 3
\* most bytes one read() returns (BUFSIZ, scaled down)
BUFSIZ == 2
\* longest byte stream explored while the counters stay short of a full wrap
MaxLine == 7
\* longest byte stream explored, long enough for overrun to wrap to zero
LongLine == 11

CR == 13
LF == 10
\* the bytes a line delivers: a data byte, CR and LF
Bytes == {36, CR, LF}

IntMax == 2^(IntBits - 1) - 1
IntMin == 0 - 2^(IntBits - 1)

\* ++x on an int where the build wraps
Incr(x) == IF x = IntMax THEN IntMin ELSE x + 1

\* read_serial entered: the locals as initialised, nothing pushed yet
RdInit ==
    [st |-> "read", count |-> 0, cr |-> 0, overrun |-> 0, senptr |-> 0,
     data |-> <<>>, pushes |-> <<>>, cut |-> 0]

\* the byte b makes ++overrun or ++cr overflow
Overflows(r, b) ==
    \/ r.count >= SENMAX /\ r.overrun = IntMax
    \/ b = CR /\ r.cr = IntMax

\* one turn of the for loop, for the byte b at *bptr; data holds
\* sblk.data[0 .. senptr), and a pushed unit is the len bytes push_senblk
\* copies out of it
Byte(r, b, trap) ==
    LET r1 == IF r.count < SENMAX
              THEN [r EXCEPT !.count = @ + 1, !.data = Append(@, b),
                             !.senptr = @ + 1]
              ELSE [r EXCEPT !.overrun = Incr(@)]
    IN  IF r.st # "read" THEN r
        ELSE IF trap /\ Overflows(r, b) THEN [r EXCEPT !.st = "abort"]
        ELSE IF b = CR THEN [r1 EXCEPT !.cr = Incr(@)]
        ELSE IF b = LF /\ r1.cr # 0
        THEN IF r1.overrun # 0
             THEN [r1 EXCEPT !.overrun = 0, !.senptr = 0, !.data = <<>>,
                             !.count = 0, !.cr = 0]
             ELSE [r1 EXCEPT !.pushes = Append(@, SubSeq(r1.data, 1, r1.count)),
                             !.senptr = 0, !.data = <<>>, !.count = 0,
                             !.cr = 0]
        ELSE [r1 EXCEPT !.cr = 0]

\* the for loop over the nread bytes of buf
RECURSIVE Scan(_, _, _)
Scan(r, buf, trap) ==
    IF buf = <<>> THEN r ELSE Scan(Byte(r, Head(buf), trap), Tail(buf), trap)

\* mutant: cr starts from zero at every read()
Carried_nocr(r) == [r EXCEPT !.cr = 0]

\* what read_serial keeps from one read() to the next: every local, all of
\* them declared and initialised outside the while loop
Carried(r) == r

\* one turn of the while loop: read() returns nread > 0 bytes of a stream
\* of at most max bytes, and the for loop goes through them (cut is history:
\* the offset in the stream at which this read() began)
SerialRead(max) ==
    /\ rd.st = "read"
    /\ \E nread \in 1..BUFSIZ :
         /\ Len(stream) + nread <= max
         /\ \E buf \in [1..nread -> Bytes] :
              /\ rd' = [Scan(Carried(rd), buf, ovf = "trap")
                          EXCEPT !.cut = Len(stream)]
              /\ stream' = stream \o buf
    /\ UNCHANGED <<ovf, hvars, svars, xvars, qvars, ivars, pvars>>

\* the while loop ends: read() returns 0 or -1, or the interface has been
\* made NONE, and read_serial calls iface_thread_exit
SerialEnd ==
    /\ rd.st = "read"
    /\ rd' = [rd EXCEPT !.st = "exit"]
    /\ UNCHANGED <<stream, ovf, hvars, svars, xvars, qvars, ivars, pvars>>

FrameNext == SerialRead(MaxLine) \/ SerialEnd

OverNext == SerialRead(LongLine) \/ SerialEnd

\* read_serial entered on a serial input, in a build that wraps or traps
FrameInit ==
    /\ HIdle
    /\ PreInit([i \in Ifaces |-> "IN"], "reap")
    /\ CIdle
    /\ stream = <<>>
    /\ rd = RdInit
    /\ ovf \in {"wrap", "trap"}

FrameSpec == FrameInit /\ [][FrameNext]_vars

OverSpec == FrameInit /\ [][OverNext]_vars

(***************************************************************************)
(* Exit, wake-ups, framing, locks and pairs                                *)
(***************************************************************************)
\* C31: main() leaves the reaper loop and exits with status 0 only when
\* inputs, outputs and dead are all empty and every interface whose thread
\* was started has been unlinked, joined and freed: never while an
\* interface thread is still running
C31_ExitClean ==
    pstate = "exit0" =>
        /\ lists.inputs = NULL /\ lists.outputs = NULL /\ lists.dead = NULL
        /\ \A i \in Ifaces : tpc[i] = "reaped"

\* queue q has something for a consumer: a unit, or it has been closed
Ready(q) == q.qhead # NULL \/ ~q.active

\* the process has ended
Ended == pstate \in {"exit0", "exit1", "segv"}

\* the engine is inside next_senblk on the central queue, asleep on
\* freshmeat or about to take q_mutex
EngineInNext == epc \in {"wait", "next"}

\* output thread i is inside next_senblk on its queue
WriterInNext(i) == tpc[i] \in {"wwait", "write"}

\* C32: no lost wake-up on a queue: a consumer inside next_senblk on a
\* queue onto which a unit has been pushed, or which has been closed (by
\* push_senblk(NULL), by the last input's unlink or by a sibling's unlink),
\* eventually returns from next_senblk, the scheduling being fair
C32_NoLostWakeup ==
    /\ (EngineInNext /\ Ready(eq)) ~> (~EngineInNext \/ Ended)
    /\ \A i \in Ifaces :
         (WriterInNext(i) /\ Ready(IfQ(i))) ~> (~WriterInNext(i) \/ Ended)

\* the stream b cut after every CR LF: the complete sentences, each with its
\* CR LF, in order (cur is the sentence being collected)
RECURSIVE Sentences(_, _)
Sentences(b, cur) ==
    IF b = <<>> THEN <<>>
    ELSE LET c == Append(cur, Head(b))
         IN  IF Head(b) = LF /\ cur # <<>> /\ cur[Len(cur)] = CR
             THEN <<c>> \o Sentences(Tail(b), <<>>)
             ELSE Sentences(Tail(b), c)

\* the sentences of s that fit a unit
RECURSIVE Fitting(_)
Fitting(s) ==
    IF s = <<>> THEN <<>>
    ELSE IF Len(Head(s)) <= SENMAX THEN <<Head(s)>> \o Fitting(Tail(s))
    ELSE Fitting(Tail(s))

\* C33: for every byte stream, every unit read_serial pushes has
\* 0 < len <= SENMAX, ends with CR LF and is exactly the bytes since the
\* previous CR LF; a sentence of more than SENMAX bytes is never pushed, and
\* the sentence after a discarded one is framed correctly: as long as
\* read_serial runs, the units pushed are the sentences of the stream that
\* fit, in order
C33_Framing ==
    rd.st = "read" =>
        /\ \A k \in 1..Len(rd.pushes) :
             LET u == rd.pushes[k]
             IN  /\ 0 < Len(u) /\ Len(u) <= SENMAX
                 /\ Len(u) >= 2 /\ u[Len(u) - 1] = CR /\ u[Len(u)] = LF
        /\ rd.pushes = Fitting(Sentences(stream, <<>>))

\* C34: framing does not depend on how the stream is cut into read() calls:
\* whatever the cuts so far, the units pushed are those of a single read()
\* returning the whole stream
C34_ChunkIndependent ==
    rd.st \in {"read", "exit"} =>
        rd.pushes = Scan(RdInit, stream, ovf = "trap").pushes

\* the CR LF of the second sentence was cut between two read() calls, and
\* both sentences have been pushed
C34_Witness ==
    /\ rd.st = "read"
    /\ stream = <<36, CR, LF, 36, CR, LF>>
    /\ rd.cut = 5
    /\ rd.pushes = <<<<36, CR, LF>>, <<36, CR, LF>>>>

\* the engine's fan-out can still push to the private queue of o: the
\* engine has not finished and o can be reached from outputs
FanOutReaches(o) == epc # "done" /\ o \in SeqSet(ListOf(lists.outputs))

\* an endpoint that has still to unlink holds o as its pair and takes it for
\* an output, whose queue its unlink closes
PairReaches(o) ==
    \E i \in Ifaces : nunlink[i] = 0 /\ pair[i] = o /\ PairIsOutput(o)

\* C35: no use of a freed private queue: a private queue is freed only by
\* its own endpoint's unlink, the endpoint having been on outputs; once it
\* is freed neither the engine's fan-out nor a paired input's unlink can
\* reach it, and no step pushes to it or closes it (while the process runs)
C35_NoUseAfterFree ==
    /\ [](pstate = "run" =>
            \A o \in Ifaces : qfreed[o] => ~FanOutReaches(o) /\ ~PairReaches(o))
    /\ [][ \A o \in Ifaces :
             /\ qfreed[o] => oq'[o] = oq[o]
             /\ (qfreed'[o] /\ ~qfreed[o] /\ pstate' = "run") =>
                   /\ tpc[o] = "unlink" /\ tpc'[o] = "done"
                   /\ o \in SeqSet(ListOf(lists.outputs)) ]_vars

\* the output half of a pair has freed its queue while its input half has
\* still to unlink
C35_Witness ==
    \E o, i \in Ifaces :
        /\ qfreed[o] /\ pair0[o] = i /\ pair0[i] = o
        /\ nunlink[i] = 0 /\ tpc[i] \in {"read", "unlink"}

\* C36: lock-order deadlock freedom: no task takes io_mutex (as
\* unlink_interface does on entry) while it holds a queue mutex; a task the
\* supervisor joins has finished its unlink and needs io_mutex no more; and
\* no task waits for ever on a mutex
C36_LockOrder ==
    /\ [](pstate # "hang")
    /\ [][ \A i \in Ifaces :
             /\ nunlink'[i] # nunlink[i] => eqlock # i
             /\ (tpc'[i] = "reaped" /\ tpc[i] # "reaped") => tpc[i] = "done" ]_vars

\* C37: pair symmetry: between the critical sections of io_mutex the pair
\* of every endpoint that has not been unlinked is NULL or an endpoint that
\* has not been unlinked either and whose pair is the former; the unlink of
\* one half leaves the survivor's pair NULL
C37_PairSymmetry ==
    /\ [](pstate = "run" =>
            \A a \in Ifaces :
                nunlink[a] = 0 /\ pair[a] # NULL =>
                    nunlink[pair[a]] = 0 /\ pair[pair[a]] = a)
    /\ [][ \A i \in Ifaces :
             (nunlink'[i] # nunlink[i] /\ pair[i] # NULL /\ pstate' = "run") =>
                 pair'[pair[i]] = NULL ]_vars

\* one half of a pair has been unlinked and the survivor, still to unlink,
\* has no pair any more
C37_Witness ==
    \E a \in Ifaces :
        /\ pstate = "run"
        /\ pair0[a] # NULL /\ nunlink[pair0[a]] = 1
        /\ nunlink[a] = 0 /\ pair[a] = NULL

\* C38: the promotion of a BOTH endpoint takes it off initialized and leaves
\* it reachable from inputs and from outputs, while the endpoints that were
\* on inputs stay on inputs only and those on outputs on outputs only: the
\* two lists are not chained together
C38_PromoteBoth ==
    [][ \A i \in Ifaces :
          (tpc[i] = "start" /\ tpc'[i] = "write" /\ dirn[i] = "BOTH") =>
              /\ i \notin SeqSet(ListAfter("initialized"))
              /\ SeqSet(ListAfter("inputs")) = SeqSet(ListOf(lists.inputs)) \cup {i}
              /\ SeqSet(ListAfter("outputs")) = SeqSet(ListOf(lists.outputs)) \cup {i} ]_vars

====
